---------------------------- MODULE Spec2Model ----------------------------
(***************************************************************************)
(* The Evolved Gas Analysis page (src/pages/tg_ftir_analysis.py) as a      *)
(* state machine: the three uploads and their module-level datasets, the   *)
(* resolution of the selected time, the closest FTIR spectrum, the         *)
(* normalised mass curve and the list of pinned spectra.                   *)
(*                                                                         *)
(* Numbers.  A time is an integer count of 0.002 s, so that 0.01 s is 5    *)
(* units and round(t, 2) is a real rounding with no ties.  A real-valued   *)
(* result of a division is the exact fraction <<numerator, denominator>>.  *)
(* An optional value (Python None or a value) is <<>> or <<v>>.            *)
(***************************************************************************)
EXTENDS Integers, Sequences, FiniteSets, TLC

VARIABLES
    contents,          \* upload-tg / upload-gs / upload-ftir 'contents' props
    status,            \* dcc.Store 'upload-status'
    tg, gs, ftir,      \* the module-level datasets
    show_gs,           \* dcc.Store 'show-gs-store'
    relayout_data,     \* time-temp-chart 'relayoutData'
    manual_time,       \* manual-time-input 'value'
    fixed_ftir_list,   \* dcc.Store 'fixed-ftir-list'
    chart_visible,     \* chart-container style is display:block
    mass_temp_chart,   \* figure of mass-temp-chart
    time_temp_chart,   \* figure of time-temp-chart
    ftir_graph,        \* figure of ftir-graph
    info_button,       \* text of info-button
    pending,           \* the store whose change has still to reach update_charts
    update_charts_error,  \* the exception the last update_charts call raised
    peer_contents,     \* the upload props of a second browser session
    peer_status,       \* dcc.Store 'upload-status' of the second session
    deriv_call,        \* a call of calc_smooth_derivative and what it returned
    multi_tg_data_store,        \* dcc.Store 'multi-tg-data-store'
    multi_tg_filenames_display, \* children of multi-tg-filenames-display
    show_graph_cards,  \* dcc.Store 'show-graph-cards'
    walkthrough_data,  \* dcc.Store 'walkthrough-data'
    tg_legend_visibility,       \* dcc.Store 'tg-legend-visibility'
    multi_tg_dtg_graph,         \* figure of multi-tg-dtg-graph
    multi_tg_comparison_graph,  \* figure of multi-tg-comparison-graph
    axis_call          \* wavenumber headers and the axis made of them

vars == <<contents, status, tg, gs, ftir, show_gs, relayout_data, manual_time,
          fixed_ftir_list, chart_visible, mass_temp_chart, time_temp_chart,
          ftir_graph, info_button, pending, update_charts_error,
          peer_contents, peer_status, deriv_call, multi_tg_data_store,
          multi_tg_filenames_display, show_graph_cards, walkthrough_data,
          tg_legend_visibility, multi_tg_dtg_graph,
          multi_tg_comparison_graph, axis_call>>

\* the outputs of handle_multi_tg_uploads
uploadOutputs ==
    <<multi_tg_data_store, multi_tg_filenames_display, show_graph_cards>>

\* the figures of the comparison page
multiTgGraphs == <<multi_tg_dtg_graph, multi_tg_comparison_graph>>

\* the comparison page
comparison ==
    <<uploadOutputs, walkthrough_data, tg_legend_visibility, multiTgGraphs>>

\* functions called on their own
calls == <<deriv_call, axis_call>>

\* what no callback of the first session's EGA page writes
elsewhere == <<peer_contents, peer_status, calls, comparison>>

-----------------------------------------------------------------------------
(* Bounds of the model *)

\* pins a session of Spec holds at most
MaxPins == 2
\* pins a run of SpecPins holds at most
MaxPinRun == 11
\* longest pinned list from which SpecPins still removes an entry
MaxUnpinLen == 3
\* rows of a spectral matrix drawn by SpecSelect
MaxRows == 3
\* acquisition times (in steps of 2 units) drawn by SpecSelect
MaxTimeSteps == 2
\* samples of a mass column drawn by SpecNorm
MaxLen == 5
\* samples of a TG file drawn by SpecDtg
MaxDtgLen == 5
\* points of a series handed to calc_smooth_derivative by SpecDeriv
MaxSeries == 5
\* columns of a table uploaded on the comparison page
MaxColumns == 3
\* wavenumber headers of a spectral matrix drawn by SpecAxis
MaxHeaders == 3
\* distinct mass values (in steps of 2 mg) drawn by SpecNorm
MaxMassSteps == 5

-----------------------------------------------------------------------------
(* Optional values and small helpers *)

None == <<>>
Some(v) == <<v>>
IsNone(o) == o = <<>>
Val(o) == o[1]

Abs(a) == IF a < 0 THEN -a ELSE a

RECURSIVE SeqMin(_)
SeqMin(s) ==
    IF Len(s) = 1 THEN s[1]
    ELSE LET m == SeqMin(Tail(s)) IN IF s[1] <= m THEN s[1] ELSE m

RECURSIVE SeqMax(_)
SeqMax(s) ==
    IF Len(s) = 1 THEN s[1]
    ELSE LET m == SeqMax(Tail(s)) IN IF s[1] >= m THEN s[1] ELSE m

\* sequences over S of length lo..hi
SeqsOf(S, lo, hi) == UNION {[1..n -> S] : n \in lo..hi}

-----------------------------------------------------------------------------
(* Uploaded files and the frames parsed from them.  kind "ok" parses,      *)
(* "unreadable" makes the reader raise, "nonnumeric" is read by read_csv   *)
(* and raises in the conversion of its cells to float.                     *)

\* temp is the sample temperature column, mass the mass column
TgFileA ==
    [name |-> "tgA", kind |-> "ok", temp |-> <<30, 40, 50, 60, 70>>,
     mass |-> <<10, 8, 6, 4, 2>>]
TgFileBad ==
    [name |-> "tgBad", kind |-> "unreadable", temp |-> <<>>, mass |-> <<>>]

\* time column 5 s .. 50 s
GsFileA == [name |-> "gsA", kind |-> "ok", time |-> <<2500, 12001, 25000>>]
GsFileBad == [name |-> "gsBad", kind |-> "unreadable", time |-> <<>>]

\* acquisition times 0 s, 10 s, 20 s
FtirFileA ==
    [name |-> "ftirA", kind |-> "ok", wn |-> <<4000, 650>>,
     times |-> <<0, 5000, 10000>>,
     rows |-> <<<<91, 92>>, <<81, 82>>, <<71, 72>>>>]
FtirFileText ==
    [name |-> "ftirText", kind |-> "nonnumeric", wn |-> <<4000, 650>>,
     times |-> <<0, 5000>>, rows |-> <<<<11, 12>>, <<21, 22>>>>]
FtirFileBad ==
    [name |-> "ftirBad", kind |-> "unreadable", wn |-> <<>>, times |-> <<>>,
     rows |-> <<>>]
\* the wavenumber column alone: no spectrum was acquired
FtirFileEmpty ==
    [name |-> "ftirEmpty", kind |-> "ok", wn |-> <<4000, 650>>,
     times |-> <<>>, rows |-> <<>>]

TgFiles == {TgFileA, TgFileBad}

\* the files of a second session
PeerTgFile ==
    [name |-> "tgB", kind |-> "ok", temp |-> <<35, 45, 55>>,
     mass |-> <<9, 6, 3>>]
PeerGsFile == [name |-> "gsB", kind |-> "ok", time |-> <<0, 10000>>]
PeerFtirFile ==
    [name |-> "ftirB", kind |-> "ok", wn |-> <<4000, 650>>,
     times |-> <<2500>>, rows |-> <<<<51, 52>>>>]

\* any short mass column, over rising temperatures (SpecNorm)
NormTgFiles ==
    {[name |-> "tg", kind |-> "ok",
      temp |-> [i \in 1..Len(m) |-> 20 + 10 * i], mass |-> m] :
        m \in SeqsOf({2 * k : k \in 1..MaxMassSteps}, 1, MaxLen)}
GsFiles == {GsFileA, GsFileBad}
FtirFiles == {FtirFileA, FtirFileText, FtirFileBad}

\* tg = gs = ftir = None
NoTg == [loaded |-> FALSE, name |-> "", temp |-> <<>>, mass |-> <<>>]
NoGs == [loaded |-> FALSE, name |-> "", time |-> <<>>]
NoFtir ==
    [loaded |-> FALSE, numeric |-> FALSE, name |-> "", wn |-> <<>>,
     times |-> <<>>, rows |-> <<>>]

\* pd.read_csv(decode_file(tg_contents, 'csv'), delimiter=',')
TgFrame(f) ==
    [loaded |-> TRUE, name |-> f.name, temp |-> f.temp, mass |-> f.mass]
\* pd.read_excel(decode_file(gs_contents, 'xlsx'), skiprows=4)
GsFrame(f) == [loaded |-> TRUE, name |-> f.name, time |-> f.time]
\* the frame read by read_csv; numeric once every column is cast to float
FtirFrame(f, numeric) ==
    [loaded |-> TRUE, numeric |-> numeric, name |-> f.name, wn |-> f.wn,
     times |-> f.times, rows |-> f.rows]

-----------------------------------------------------------------------------
(* update_status: every stream with contents is parsed again; the flag is  *)
(* set before the parse and cleared by the except branch.                  *)

ParsedOk(c) == Val(c).kind = "ok"

\* variant: the flag set before the parse is not cleared when it fails
StatusFlag_NotCleared(c, old) == IF IsNone(c) THEN old ELSE TRUE

StatusFlag(c, old) == IF IsNone(c) THEN old ELSE ParsedOk(c)

TgAfterParse(c, old) ==
    IF IsNone(c) THEN old
    ELSE IF ParsedOk(c) THEN TgFrame(Val(c)) ELSE old

GsAfterParse(c, old) ==
    IF IsNone(c) THEN old
    ELSE IF ParsedOk(c) THEN GsFrame(Val(c)) ELSE old

\* ftir is assigned by read_csv before the cast to float can raise
FtirAfterParse(c, old) ==
    IF IsNone(c) THEN old
    ELSE IF Val(c).kind = "unreadable" THEN old
    ELSE FtirFrame(Val(c), ParsedOk(c))

update_status(tg_contents, gs_contents, ftir_contents) ==
    /\ status' = [tg |-> StatusFlag(tg_contents, status.tg),
                  gs |-> StatusFlag(gs_contents, status.gs),
                  ftir |-> StatusFlag(ftir_contents, status.ftir)]
    /\ tg' = TgAfterParse(tg_contents, tg)
    /\ gs' = GsAfterParse(gs_contents, gs)
    /\ ftir' = FtirAfterParse(ftir_contents, ftir)
    /\ pending' = Some("upload-status")

-----------------------------------------------------------------------------
(* update_charts: the pieces of the computation *)

PLOTLY_COLORS ==
    <<"#636EFA", "#EF553B", "#00CC96", "#AB63FA", "#FFA15A",
      "#19D3F3", "#FF6692", "#B6E880", "#FF97FF", "#FECB52">>

AllLoaded(st) == st.tg /\ st.gs /\ st.ftir

\* the value of relayout_data.get('shapes[0].x0', relayout_data.get('shapes[0].x1'))
ShapeX(rd) == IF ~IsNone(rd.x0) THEN Val(rd.x0) ELSE Val(rd.x1)

HasShapeX(rd) == ~IsNone(rd.x0) \/ ~IsNone(rd.x1)

\* variant: a manual value already present shadows the moved shape
RawSelectedTime_ManualFirst(trig, manual, rd, gs_time) ==
    IF ~IsNone(manual) THEN Val(manual)
    ELSE IF trig = Some("time-temp-chart") /\ HasShapeX(rd) THEN ShapeX(rd)
    ELSE SeqMin(gs_time)

\* selected_time before it is clipped: the if/elif chain
RawSelectedTime(trig, manual, rd, gs_time) ==
    IF trig = Some("manual-time-input") /\ ~IsNone(manual) THEN Val(manual)
    ELSE IF trig = Some("time-temp-chart") /\ HasShapeX(rd) THEN ShapeX(rd)
    ELSE IF ~IsNone(manual) THEN Val(manual)
    ELSE SeqMin(gs_time)

\* variant: only the lower side is clipped
Clip_LowerOnly(a, lo, hi) == IF a < lo THEN lo ELSE a

\* np.clip(a, lo, hi) == minimum(maximum(a, lo), hi)
Clip(a, lo, hi) ==
    LET m == IF a < lo THEN lo ELSE a
    IN  IF m > hi THEN hi ELSE m

SelectedTime(trig, manual, rd, gs_time) ==
    Clip(RawSelectedTime(trig, manual, rd, gs_time),
         SeqMin(gs_time), SeqMax(gs_time))

\* variant: the decimals after the second are cut off
Round2_Truncated(t) == (t \div 5) * 5

\* round(selected_time, 2): to the nearest multiple of 0.01 s = 5 units
Round2(t) == ((t + 2) \div 5) * 5

\* variant: the last position of the minimum
RECURSIVE ArgMinFrom_LastWins(_, _, _, _)
ArgMinFrom_LastWins(times, sel, i, best) ==
    IF i > Len(times) THEN best
    ELSE IF Abs(times[i] - sel) <= Abs(times[best] - sel)
         THEN ArgMinFrom_LastWins(times, sel, i + 1, i)
         ELSE ArgMinFrom_LastWins(times, sel, i + 1, best)

\* (times - selected_time).abs().argmin(): the first position of the minimum
RECURSIVE ArgMinFrom(_, _, _, _)
ArgMinFrom(times, sel, i, best) ==
    IF i > Len(times) THEN best
    ELSE IF Abs(times[i] - sel) < Abs(times[best] - sel)
         THEN ArgMinFrom(times, sel, i + 1, i)
         ELSE ArgMinFrom(times, sel, i + 1, best)

ClosestIdx(times, sel) == ArgMinFrom(times, sel, 2, 1)

\* variant: the first and the last sample in place of the extrema
NormMass_FirstLast(mass) ==
    LET init_mass == mass[1]
        fin_mass == mass[Len(mass)]
    IN  IF init_mass - fin_mass # 0
        THEN [i \in 1..Len(mass) |->
                 <<100 * (mass[i] - fin_mass), init_mass - fin_mass>>]
        ELSE [i \in 1..Len(mass) |-> <<0, 1>>]

\* variant: the mass lost, in place of the mass left
NormMass_Lost(mass) ==
    LET init_mass == SeqMax(mass)
        fin_mass == SeqMin(mass)
    IN  IF init_mass - fin_mass # 0
        THEN [i \in 1..Len(mass) |->
                 <<100 * (init_mass - mass[i]), init_mass - fin_mass>>]
        ELSE [i \in 1..Len(mass) |-> <<0, 1>>]

\* variant: the division is made whatever the denominator
NormMass_NoGuard(mass) ==
    LET init_mass == SeqMax(mass)
        fin_mass == SeqMin(mass)
    IN  [i \in 1..Len(mass) |->
            <<100 * (mass[i] - fin_mass), init_mass - fin_mass>>]

\* 100.0 * (masa_loss - fin_mass) / (init_mass - fin_mass), or zeros
NormMass(mass) ==
    LET init_mass == SeqMax(mass)
        fin_mass == SeqMin(mass)
    IN  IF init_mass - fin_mass # 0
        THEN [i \in 1..Len(mass) |->
                 <<100 * (mass[i] - fin_mass), init_mass - fin_mass>>]
        ELSE [i \in 1..Len(mass) |-> <<0, 1>>]

-----------------------------------------------------------------------------
(* calc_smooth_derivative and the Savitzky-Golay filter it calls.  A series *)
(* is a sequence of fractions that share one denominator.                   *)

DefaultWindowLength == 21
DefaultPolyorder == 2

Sgn(a) == IF a > 0 THEN 1 ELSE IF a < 0 THEN -1 ELSE 0

\* p <= q for two fractions
FracLeq(p, q) ==
    IF p[2] = q[2]
    THEN IF p[2] > 0 THEN p[1] <= q[1] ELSE p[1] >= q[1]
    ELSE p[1] * q[2] * Sgn(p[2]) * Sgn(q[2]) <= q[1] * p[2] * Sgn(p[2]) * Sgn(q[2])

\* p - q and p / q for two fractions
FracSub(p, q) ==
    IF p[2] = q[2] THEN <<p[1] - q[1], p[2]>>
    ELSE <<p[1] * q[2] - q[1] * p[2], p[2] * q[2]>>
FracQuot(p, q) ==
    IF p[2] = q[2] THEN <<p[1], q[1]>> ELSE <<p[1] * q[2], p[2] * q[1]>>

\* the sequence s itself, as an enumerated tuple
Values(s) == s \o <<>>

\* np.min and np.max of a vector
RECURSIVE FracMin(_)
FracMin(s) ==
    IF Len(s) = 1 THEN s[1]
    ELSE LET m == FracMin(Tail(s)) IN IF FracLeq(s[1], m) THEN s[1] ELSE m
RECURSIVE FracMax(_)
FracMax(s) ==
    IF Len(s) = 1 THEN s[1]
    ELSE LET m == FracMax(Tail(s)) IN IF FracLeq(m, s[1]) THEN s[1] ELSE m

\* the sum of f[k] for k in lo..hi
RECURSIVE Sum(_, _, _)
Sum(f, lo, hi) == IF lo > hi THEN 0 ELSE f[lo] + Sum(f, lo + 1, hi)

\* k ** e, with k ** 0 = 1
RECURSIVE Pow(_, _)
Pow(k, e) == IF e = 0 THEN 1 ELSE k * Pow(k, e - 1)

\* the sum of k^e over the positions -m..m of a window
PowerSum(m, e) == Sum([k \in -m..m |-> Pow(k, e)], -m, m)

\* the sum of k^e * y[c + k] over the window centred at c, on the numerators
Moment(y, c, m, e) == Sum([k \in -m..m |-> Pow(k, e) * y[c + k][1]], -m, m)

\* variant: an even window is left even
WindowLength_NoOddStep(n, window_length) ==
    LET w1 == IF window_length >= n
              THEN (IF n % 2 = 0 THEN n - 1 ELSE n)
              ELSE window_length
    IN  IF w1 < 3 THEN 3 ELSE w1

\* the window after the three adjustments of calc_smooth_derivative
WindowLength(n, window_length) ==
    LET w1 == IF window_length >= n
              THEN (IF n % 2 = 0 THEN n - 1 ELSE n)
              ELSE window_length
        w2 == IF w1 < 3 THEN 3 ELSE w1
    IN  IF w2 % 2 = 0 THEN w2 + 1 ELSE w2

\* float(np.mean(np.diff(x))) if len(x) > 1 else 1.0
Delta(x) == IF Len(x) > 1 THEN <<x[Len(x)] - x[1], Len(x) - 1>> ELSE <<1, 1>>

\* the exceptions savgol_filter(y, window_length, polyorder, deriv, delta)
\* raises with mode='interp'; the coefficients of a derivative within the
\* order are divided by delta ** deriv, a division of Python floats
SavgolRaises(n, window_length, polyorder, deriv, delta) ==
    IF polyorder >= window_length THEN {"ValueError"}
    ELSE IF window_length > n THEN {"ValueError"}
    ELSE IF deriv > 0 /\ deriv <= polyorder /\ delta[1] = 0
         THEN {"ZeroDivisionError"}
    ELSE {}

\* the least-squares polynomial of order 0..3 over the window of half-width
\* m centred at c, or its first derivative, at offset t from c.  S[e] is the
\* sum of the powers e of the window's positions -m..m and P[e] the moment of
\* order e of the samples; the polynomial is a0 + a1 t + a2 t^2 + a3 t^3 with
\* a0 = E0/EvenDen, a2 = E2/EvenDen, a1 = O1/OddDen, a3 = O3/OddDen.
SavgolAt(y, c, m, S, polyorder, deriv, delta, t) ==
    LET P == [e \in 0..3 |-> Moment(y, c, m, e)]
        EvenDen == IF polyorder < 2 THEN S[0] ELSE S[0] * S[4] - S[2] * S[2]
        E0 == IF polyorder < 2 THEN P[0] ELSE S[4] * P[0] - S[2] * P[2]
        E2 == IF polyorder < 2 THEN 0 ELSE S[0] * P[2] - S[2] * P[0]
        OddDen == IF polyorder < 3 THEN S[2] ELSE S[2] * S[6] - S[4] * S[4]
        O1 == IF polyorder < 1 THEN 0
              ELSE IF polyorder < 3 THEN P[1]
              ELSE S[6] * P[1] - S[4] * P[3]
        O3 == IF polyorder < 3 THEN 0 ELSE S[2] * P[3] - S[4] * P[1]
        D == y[c][2]
    IN  IF deriv = 0
        THEN <<(E0 + E2 * t * t) * OddDen + (O1 * t + O3 * t * t * t) * EvenDen,
               EvenDen * OddDen * D>>
        ELSE <<(2 * E2 * t * OddDen + (O1 + 3 * O3 * t * t) * EvenDen)
                   * delta[2],
               EvenDen * OddDen * D * delta[1]>>

\* what savgol_filter(y, window_length, polyorder, deriv=deriv, delta=delta)
\* returns when it does not raise, for deriv 0 or 1: the inner samples are
\* fitted over the window centred at them, the first and the last halflen
\* samples over the first and the last window; the coefficients of a
\* derivative above the order are zeros, and only the fitted edges are
\* divided by delta ** deriv
savgol_filter(y, window_length, polyorder, deriv, delta) ==
    LET n == Len(y)
        m == window_length \div 2
        S == [e \in 0..6 |-> PowerSum(m, e)]
        centre(i) == IF i <= m THEN m + 1 ELSE IF i > n - m THEN n - m ELSE i
    IN  [i \in 1..n |->
            IF deriv > polyorder /\ centre(i) = i THEN <<0, 1>>
            ELSE SavgolAt(y, centre(i), m, S, polyorder, deriv, delta,
                          i - centre(i))]

\* one call of the filter, as calc_smooth_derivative makes it
SavgolCall(window_length, polyorder, deriv, delta) ==
    [window_length |-> window_length, polyorder |-> polyorder,
     deriv |-> deriv, delta |-> delta]

\* variant: only series of fewer than 2 points are returned as they are
TooShort_Two(y) == Len(y) < 2

\* if len(y) < 3
TooShort(y) == Len(y) < 3

\* the exceptions calc_smooth_derivative(x, y, window_length, polyorder)
\* raises: those of its first call of the filter, else those of its second
CalcRaises(x, y, window_length, polyorder) ==
    IF TooShort(y) THEN {}
    ELSE LET w == WindowLength(Len(y), window_length)
             first == SavgolRaises(Len(y), w, polyorder, 0, <<1, 1>>)
         IN  IF first # {} THEN first
             ELSE SavgolRaises(Len(y), w, polyorder, 1, Delta(x))

\* the calls of the filter it makes
CalcSavgol(x, y, window_length, polyorder) ==
    IF TooShort(y) THEN <<>>
    ELSE LET w == WindowLength(Len(y), window_length)
             first == SavgolCall(w, polyorder, 0, <<1, 1>>)
         IN  IF SavgolRaises(Len(y), w, polyorder, 0, <<1, 1>>) # {}
             THEN <<first>>
             ELSE <<first, SavgolCall(w, polyorder, 1, Delta(x))>>

\* y_smooth, the first value it returns
CalcSmooth(x, y, window_length, polyorder) ==
    IF TooShort(y) THEN y
    ELSE IF CalcRaises(x, y, window_length, polyorder) # {} THEN <<>>
    ELSE savgol_filter(y, WindowLength(Len(y), window_length), polyorder, 0,
                       <<1, 1>>)

\* dy_dx, the second value it returns
CalcDerivative(x, y, window_length, polyorder) ==
    IF TooShort(y) THEN [i \in 1..Len(y) |-> <<0, 1>>]
    ELSE IF CalcRaises(x, y, window_length, polyorder) # {} THEN <<>>
    ELSE savgol_filter(y, WindowLength(Len(y), window_length), polyorder, 1,
                       Delta(x))

\* calc_smooth_derivative(x, y, window_length, polyorder): what it returns or
\* raises, and the calls of the filter it makes
calc_smooth_derivative(x, y, window_length, polyorder) ==
    [raised |-> CalcRaises(x, y, window_length, polyorder),
     savgol |-> CalcSavgol(x, y, window_length, polyorder),
     y_smooth |-> CalcSmooth(x, y, window_length, polyorder),
     dy_dx |-> CalcDerivative(x, y, window_length, polyorder)]

\* variant: the derivative is divided by its maximum only
RescaleDeriv_ByMax(dy_dx) ==
    LET deriv == Values(dy_dx)
        hi == FracMax(deriv)
        lo == FracMin(deriv)
    IN  IF FracSub(hi, lo)[1] # 0
        THEN [i \in 1..Len(deriv) |->
                 LET q == FracQuot(deriv[i], hi) IN <<100 * q[1], q[2]>>]
        ELSE [i \in 1..Len(deriv) |-> <<0, 1>>]

\* deriv_norm: 100.0 * (deriv - np.min(deriv)) / (np.max(deriv) - np.min(deriv)),
\* or zeros
RescaleDeriv(dy_dx) ==
    LET deriv == Values(dy_dx)
        hi == FracMax(deriv)
        lo == FracMin(deriv)
    IN  IF FracSub(hi, lo)[1] # 0
        THEN [i \in 1..Len(deriv) |->
                 LET q == FracQuot(FracSub(deriv[i], lo), FracSub(hi, lo))
                 IN  <<100 * q[1], q[2]>>]
        ELSE [i \in 1..Len(deriv) |-> <<0, 1>>]

\* _, deriv = calc_smooth_derivative(sample_temp, norm_mass): the exceptions
\* of the call, and the rescaled derivative when it returns
DtgRaises(t) ==
    CalcRaises(t.temp, NormMass(t.mass), DefaultWindowLength, DefaultPolyorder)

DtgTrace(t) ==
    RescaleDeriv(CalcDerivative(t.temp, NormMass(t.mass), DefaultWindowLength,
                                DefaultPolyorder))

-----------------------------------------------------------------------------
(* update_charts: the wavenumber axis made of the column headers.  A header *)
(* is a number or a text; a text is a sequence of characters.               *)

NumberHeader(v) == [type |-> "number", value |-> <<v, 1>>, text |-> <<>>]
TextHeader(s) == [type |-> "text", value |-> <<0, 0>>, text |-> s]

Digits == <<"0", "1", "2", "3", "4", "5", "6", "7", "8", "9">>

IsDigit(ch) == \E d \in 1..Len(Digits) : Digits[d] = ch
DigitValue(ch) == (CHOOSE d \in 1..Len(Digits) : Digits[d] = ch) - 1

\* str.strip(), blanks only
RECURSIVE Strip(_)
Strip(s) ==
    IF s = <<>> THEN s
    ELSE IF Head(s) = " " THEN Strip(Tail(s))
    ELSE IF s[Len(s)] = " " THEN Strip(SubSeq(s, 1, Len(s) - 1))
    ELSE s

\* variant: the comma is left where it is
DecimalPoint_Kept(s) == s

\* .replace(',', '.')
DecimalPoint(s) == [i \in 1..Len(s) |-> IF s[i] = "," THEN "." ELSE s[i]]

\* the digits of s read as a decimal number
RECURSIVE DigitsValue(_, _)
DigitsValue(s, acc) ==
    IF s = <<>> THEN acc
    ELSE IF Head(s) = "." THEN DigitsValue(Tail(s), acc)
    ELSE DigitsValue(Tail(s), 10 * acc + DigitValue(Head(s)))

\* float(s) for a text of digits with a sign and a decimal point at most:
\* None when float raises ValueError
Float(s) ==
    LET signed == s # <<>> /\ Head(s) \in {"+", "-"}
        body == IF signed THEN Tail(s) ELSE s
        points == {i \in 1..Len(body) : body[i] = "."}
        decimals ==
            IF points = {} THEN 0
            ELSE Len(body) - (CHOOSE i \in points : TRUE)
        sign == IF signed /\ Head(s) = "-" THEN -1 ELSE 1
    IN  IF /\ \A i \in 1..Len(body) : IsDigit(body[i]) \/ body[i] = "."
           /\ Cardinality(points) <= 1
           /\ \E i \in 1..Len(body) : IsDigit(body[i])
        THEN Some(<<sign * DigitsValue(body, 0), Pow(10, decimals)>>)
        ELSE None

\* the value of a header the loop keeps, None for one it ignores
HeaderValue(c) ==
    IF c.type = "number" THEN Some(c.value)
    ELSE Float(DecimalPoint(Strip(c.text)))

\* the headers kept, in the order of the columns
RECURSIVE KeptCols(_)
KeptCols(headers) ==
    IF headers = <<>> THEN <<>>
    ELSE IF IsNone(HeaderValue(Head(headers))) THEN KeptCols(Tail(headers))
    ELSE <<Head(headers)>> \o KeptCols(Tail(headers))

\* kept_cols and wavelengths as they are after the if/else on kept_cols
WavenumberAxis(headers) ==
    LET kept_cols == KeptCols(headers)
    IN  IF kept_cols # <<>>
        THEN [kept_cols |-> kept_cols,
              wavelengths |->
                  [i \in 1..Len(kept_cols) |-> Val(HeaderValue(kept_cols[i]))]]
        ELSE [kept_cols |-> headers,
              wavelengths |-> [i \in 1..Len(headers) |-> <<i - 1, 1>>]]

-----------------------------------------------------------------------------
(* update_charts: the figures *)

\* the figures and texts returned while a dataset is missing: {}, {}, {}, '', ''
EmptyMassFig == [data |-> FALSE, tg |-> <<>>, dtg |-> <<>>, source |-> ""]
EmptyTimeFig ==
    [data |-> FALSE, line |-> None, gs_trace |-> FALSE, tg |-> "", gs |-> ""]
EmptyFtirFig ==
    [data |-> FALSE, x |-> <<>>, y |-> <<>>, closest_time |-> None,
     fixed |-> <<>>]
EmptyInfo == [text |-> FALSE, selected |-> None, closest |-> None, tg |-> ""]

\* fig1: the TG trace and the DTG trace
MassFig(t) ==
    [data |-> TRUE, tg |-> NormMass(t.mass), dtg |-> DtgTrace(t),
     source |-> t.name]

\* fig1 of each TG file a session uploads, computed once
SessionMassFigs ==
    [t \in {TgFrame(f) : f \in {g \in TgFiles : g.kind = "ok"}} |->
        IF DtgRaises(t) = {} THEN MassFig(t) ELSE EmptyMassFig]

\* the exceptions update_charts raises once the three statuses are true: in
\* the derivative, or in the argmin over a spectral matrix without rows
UpdateChartsRaises(t, f) ==
    IF DtgRaises(t) # {} THEN DtgRaises(t)
    ELSE IF f.times = <<>> THEN {"ValueError"}
    ELSE {}

\* fig2: the temperature trace, the GS trace when shown, the red line
TimeFig(sel, show, t, g) ==
    [data |-> TRUE, line |-> Some(sel), gs_trace |-> show, tg |-> t.name,
     gs |-> g.name]

\* fig_ftir: data[0] is the closest spectrum, then one trace per pin
FtirFig(f, sel, fixed) ==
    LET closest_idx == ClosestIdx(f.times, sel)
    IN  [data |-> TRUE, x |-> f.wn, y |-> f.rows[closest_idx],
         closest_time |-> Some(f.times[closest_idx]), fixed |-> fixed]

\* btn_txt: selected time, closest FTIR time, temperature interpolated on tg
InfoText(f, sel, t) ==
    [text |-> TRUE, selected |-> Some(sel),
     closest |-> Some(f.times[ClosestIdx(f.times, sel)]), tg |-> t.name]

\* no call of calc_smooth_derivative has been made on its own
NoCall ==
    [x |-> <<>>, y |-> <<>>, window_length |-> 0, polyorder |-> 0,
     called |-> FALSE,
     result |-> [raised |-> {}, savgol |-> <<>>, y_smooth |-> <<>>,
                 dy_dx |-> <<>>]]

\* multi-tg-filenames-display before any upload
NoFeedback == [total |-> 0, processed |-> <<>>, errors |-> <<>>]

\* a figure of the comparison page without traces
EmptyMultiTgFig == [raised |-> {}, traces |-> <<>>]

\* the wavenumber axis has not been built on its own
NoAxisCall ==
    [headers |-> <<>>, called |-> FALSE,
     result |-> [kept_cols |-> <<>>, wavelengths |-> <<>>]]

\* the outputs of update_charts
chartOutputs ==
    <<chart_visible, mass_temp_chart, time_temp_chart, ftir_graph,
      info_button, manual_time>>

update_charts(trig, st, show, rd, manual, fixed) ==
    IF ~AllLoaded(st)
    THEN /\ chart_visible' = FALSE
         /\ mass_temp_chart' = EmptyMassFig
         /\ time_temp_chart' = EmptyTimeFig
         /\ ftir_graph' = EmptyFtirFig
         /\ info_button' = EmptyInfo
         /\ manual_time' = None
         /\ update_charts_error' = None
    ELSE IF UpdateChartsRaises(tg, ftir) # {}
    THEN /\ update_charts_error' \in
                {Some(e) : e \in UpdateChartsRaises(tg, ftir)}
         /\ UNCHANGED chartOutputs
    ELSE LET selected_time == SelectedTime(trig, manual, rd, gs.time)
         IN  /\ update_charts_error' = None
             /\ chart_visible' = TRUE
             /\ mass_temp_chart' =
                    IF tg \in DOMAIN SessionMassFigs THEN SessionMassFigs[tg]
                    ELSE MassFig(tg)
             /\ time_temp_chart' = TimeFig(selected_time, show, tg, gs)
             /\ ftir_graph' = FtirFig(ftir, selected_time, fixed)
             /\ info_button' = InfoText(ftir, selected_time, tg)
             /\ manual_time' = Some(Round2(selected_time))

-----------------------------------------------------------------------------
(* calc_smooth_derivative of the comparison page (src/pages/tg_comparison.py) *)

\* window_length = max(3, min(window_length, n - 1)), made odd
ComparisonWindowLength(n, window_length) ==
    LET least == IF window_length < n - 1 THEN window_length ELSE n - 1
        w == IF least < 3 THEN 3 ELSE least
    IN  IF w % 2 = 0 THEN w - 1 ELSE w

\* polyorder = min(polyorder, window_length - 1)
ComparisonPolyorder(polyorder, window_length) ==
    IF polyorder < window_length - 1 THEN polyorder ELSE window_length - 1

\* dx = float(np.mean(np.diff(x))) if n > 1 else 1.0
ComparisonDelta(x, y) ==
    IF Len(y) > 1 THEN <<x[Len(x)] - x[1], Len(x) - 1>> ELSE <<1, 1>>

\* the exceptions it raises: those of its first call of the filter, else
\* those of its second
ComparisonCalcRaises(x, y, window_length, polyorder) ==
    LET w == ComparisonWindowLength(Len(y), window_length)
        p == ComparisonPolyorder(polyorder, w)
        first == SavgolRaises(Len(y), w, p, 0, <<1, 1>>)
    IN  IF first # {} THEN first
        ELSE SavgolRaises(Len(y), w, p, 1, ComparisonDelta(x, y))

\* the calls of the filter it makes
ComparisonCalcSavgol(x, y, window_length, polyorder) ==
    LET w == ComparisonWindowLength(Len(y), window_length)
        p == ComparisonPolyorder(polyorder, w)
        first == SavgolCall(w, p, 0, <<1, 1>>)
    IN  IF SavgolRaises(Len(y), w, p, 0, <<1, 1>>) # {} THEN <<first>>
        ELSE <<first, SavgolCall(w, p, 1, ComparisonDelta(x, y))>>

\* y_smooth
ComparisonCalcSmooth(x, y, window_length, polyorder) ==
    LET w == ComparisonWindowLength(Len(y), window_length)
    IN  IF ComparisonCalcRaises(x, y, window_length, polyorder) # {} THEN <<>>
        ELSE savgol_filter(y, w, ComparisonPolyorder(polyorder, w), 0,
                           <<1, 1>>)

\* dy_dx
ComparisonCalcDerivative(x, y, window_length, polyorder) ==
    LET w == ComparisonWindowLength(Len(y), window_length)
    IN  IF ComparisonCalcRaises(x, y, window_length, polyorder) # {} THEN <<>>
        ELSE savgol_filter(y, w, ComparisonPolyorder(polyorder, w), 1,
                           ComparisonDelta(x, y))

\* calc_smooth_derivative(x, y, window_length, polyorder) of the comparison
\* page: what it returns or raises, and the calls of the filter it makes
tg_comparison_calc_smooth_derivative(x, y, window_length, polyorder) ==
    [raised |-> ComparisonCalcRaises(x, y, window_length, polyorder),
     savgol |-> ComparisonCalcSavgol(x, y, window_length, polyorder),
     y_smooth |-> ComparisonCalcSmooth(x, y, window_length, polyorder),
     dy_dx |-> ComparisonCalcDerivative(x, y, window_length, polyorder)]

-----------------------------------------------------------------------------
(* The comparison page: column names are sequences of characters *)

\* the letters str.lower changes
Uppercase ==
    <<"A", "B", "C", "D", "E", "F", "G", "H", "I", "J", "K", "L", "M", "N",
      "O", "P", "Q", "R", "S", "T", "U", "V", "W", "X", "Y", "Z">>
\* and what it makes of them
Lowercase ==
    <<"a", "b", "c", "d", "e", "f", "g", "h", "i", "j", "k", "l", "m", "n",
      "o", "p", "q", "r", "s", "t", "u", "v", "w", "x", "y", "z">>

LowerChar(ch) ==
    IF \E i \in 1..Len(Uppercase) : Uppercase[i] = ch
    THEN Lowercase[CHOOSE i \in 1..Len(Uppercase) : Uppercase[i] = ch]
    ELSE ch

\* df.columns.str.lower(), one name
Lower(name) == [i \in 1..Len(name) |-> LowerChar(name[i])]

\* sub in name
Contains(sub, name) ==
    \E i \in 0..(Len(name) - Len(sub)) : SubSeq(name, i + 1, i + Len(sub)) = sub

\* "sample temperature"
SampleTemperaturePattern ==
    <<"s", "a", "m", "p", "l", "e", " ", "t", "e", "m", "p", "e", "r", "a",
      "t", "u", "r", "e">>
\* "program temperature"
ProgramTemperaturePattern ==
    <<"p", "r", "o", "g", "r", "a", "m", " ", "t", "e", "m", "p", "e", "r",
      "a", "t", "u", "r", "e">>
\* "Unsubtracted Weight", as the mass loop spells it
UnsubtractedWeightPattern ==
    <<"U", "n", "s", "u", "b", "t", "r", "a", "c", "t", "e", "d", " ", "W",
      "e", "i", "g", "h", "t">>
\* "weight"
WeightPattern ==
    <<"w", "e", "i", "g", "h", "t">>
\* "tg"
TgPattern ==
    <<"t", "g">>

\* the patterns the mass loop tries on each column, joined by "or"
MassPatterns == {UnsubtractedWeightPattern, WeightPattern, TgPattern}

\* for i, c in enumerate(cols): if p1 in c or p2 in c ...: append; break
FirstColumn(columns, patterns) ==
    LET hits ==
            {i \in 1..Len(columns) :
                \E p \in patterns : Contains(p, Lower(columns[i]))}
    IN  IF hits = {} THEN <<>>
        ELSE <<columns[CHOOSE i \in hits : \A j \in hits : i <= j]>>

\* df.columns[:2]
FirstTwo(columns) ==
    SubSeq(columns, 1, IF Len(columns) < 2 THEN Len(columns) ELSE 2)

\* the names of the columns of df[selected_cols]
_select_tg_columns(columns) ==
    LET selected_cols ==
            FirstColumn(columns, {SampleTemperaturePattern})
                \o FirstColumn(columns, {ProgramTemperaturePattern})
                \o FirstColumn(columns, MassPatterns)
    IN  IF selected_cols = <<>> THEN FirstTwo(columns) ELSE selected_cols

\* column names of the tables uploaded on the comparison page
\* columns no pattern matches
ColTime ==
    <<"T", "i", "m", "e">>
ColIndex ==
    <<"I", "n", "d", "e", "x">>
\* a sample temperature column
ColSampleTemperature ==
    <<"S", "a", "m", "p", "l", "e", " ", "T", "e", "m", "p", "e", "r", "a",
      "t", "u", "r", "e">>
\* a program temperature column
ColProgramTemperature ==
    <<"P", "r", "o", "g", "r", "a", "m", " ", "T", "e", "m", "p", "e", "r",
      "a", "t", "u", "r", "e">>
\* mass columns
ColWeight ==
    <<"W", "e", "i", "g", "h", "t">>
ColUnsubtractedWeight ==
    <<"U", "n", "s", "u", "b", "t", "r", "a", "c", "t", "e", "d", " ", "W",
      "e", "i", "g", "h", "t">>
ColTg ==
    <<"T", "G">>

ColumnNames ==
    {ColTime, ColIndex, ColSampleTemperature, ColProgramTemperature, ColWeight,
     ColUnsubtractedWeight, ColTg}

\* tables of 1..MaxColumns columns with different names
Tables ==
    {t \in SeqsOf(ColumnNames, 1, MaxColumns) :
        \A i, j \in 1..Len(t) : t[i] = t[j] => i = j}

MultiTgNames == {"a.csv", "b.csv"}

\* a file of the comparison page: its column names in table order, the
\* values of its temperature columns and those of its mass columns
TableFile(n, t, temp, mass) ==
    [name |-> n, kind |-> "ok", columns |-> t, temp |-> temp, mass |-> mass]

\* a file the reader rejects
UnreadableTable(n) ==
    [name |-> n, kind |-> "unreadable", columns |-> <<>>, temp |-> <<>>,
     mass |-> <<>>]

\* any table as a.csv, two tables as b.csv, and files that cannot be read
MultiTgFiles ==
    {TableFile("a.csv", t, <<30, 40, 50>>, <<6, 4, 2>>) : t \in Tables}
    \cup {TableFile("b.csv", t, <<30, 40, 50>>, <<6, 4, 2>>) :
              t \in {<<ColTg, ColTime>>, <<ColTime>>}}
    \cup {UnreadableTable(n) : n \in MultiTgNames}

\* what one drop on upload-multi-tg holds: nothing, one file, or two
UploadLists ==
    {<<>>} \cup {<<f>> : f \in MultiTgFiles}
    \cup {<<UnreadableTable("a.csv"),
            TableFile("b.csv", <<ColTg, ColTime>>, <<30, 40, 50>>,
                      <<6, 4, 2>>)>>}

\* df_selected of each table a session uploads, computed once
SelectedOfTables == [t \in Tables |-> _select_tg_columns(t)]

\* current_data[n] = df_selected.to_json(orient="split")
StoreEntry(f) ==
    [name |-> f.name,
     columns |-> IF f.columns \in Tables THEN SelectedOfTables[f.columns]
                 ELSE _select_tg_columns(f.columns),
     temp |-> f.temp, mass |-> f.mass]

\* "n in current_data"
InStore(data, n) == \E k \in 1..Len(data) : data[k].name = n

\* the loop over zip(list_of_contents, list_of_names)
RECURSIVE ReadUploads(_, _, _)
ReadUploads(files, i, acc) ==
    IF i > Len(files) THEN acc
    ELSE IF InStore(acc.current_data, files[i].name)
         THEN ReadUploads(files, i + 1, acc)
    ELSE IF files[i].kind = "ok"
         THEN ReadUploads(files, i + 1,
                  [acc EXCEPT
                      !.current_data = Append(@, StoreEntry(files[i])),
                      !.newly_added = Append(@, files[i].name)])
    ELSE ReadUploads(files, i + 1,
             [acc EXCEPT !.errors = Append(@, files[i].name)])

\* handle_multi_tg_uploads triggered by upload-multi-tg
handle_multi_tg_uploads(list_of_contents, existing_data_json) ==
    LET read ==
            ReadUploads(list_of_contents, 1,
                        [current_data |-> existing_data_json,
                         newly_added |-> <<>>, errors |-> <<>>])
    IN  IF list_of_contents # <<>>
        THEN /\ multi_tg_data_store' = read.current_data
             /\ multi_tg_filenames_display' =
                    [total |-> Len(read.current_data),
                     processed |-> read.newly_added, errors |-> read.errors]
             /\ show_graph_cards' = (read.current_data # <<>>)
        ELSE /\ multi_tg_data_store' = existing_data_json
             /\ multi_tg_filenames_display' =
                    [total |-> Len(existing_data_json), processed |-> <<>>,
                     errors |-> <<>>]
             /\ show_graph_cards' = (existing_data_json # <<>>)

\* the labels of WALKTHROUGH_FILES, in the order of the list
WalkthroughLabels == <<"TG_50CO_50P_R10.csv", "TG_80CO-20ES_R10R5_W6.csv">>

\* load_walkthrough(n_clicks) with n_clicks >= 1: assets[i] is None when the
\* path of the i-th file does not exist, else the table read from it
RECURSIVE LoadFrom(_, _, _)
LoadFrom(assets, i, loaded) ==
    IF i > Len(assets) THEN loaded
    ELSE IF IsNone(assets[i]) THEN LoadFrom(assets, i + 1, loaded)
    ELSE LoadFrom(assets, i + 1,
             Append(loaded,
                    StoreEntry([Val(assets[i]) EXCEPT
                                   !.name = WalkthroughLabels[i]])))

load_walkthrough(assets) == LoadFrom(assets, 1, <<>>)

\* current_data.update(walkthrough_loaded): the value of a key the dict has
\* is replaced where it stands, a new key goes to the end
RECURSIVE DictUpdate(_, _, _)
DictUpdate(current_data, loaded, i) ==
    IF i > Len(loaded) THEN current_data
    ELSE IF InStore(current_data, loaded[i].name)
         THEN DictUpdate(
                  [k \in 1..Len(current_data) |->
                      IF current_data[k].name = loaded[i].name THEN loaded[i]
                      ELSE current_data[k]],
                  loaded, i + 1)
    ELSE DictUpdate(Append(current_data, loaded[i]), loaded, i + 1)

\* the names of a sequence of store entries
EntryNames(entries) == [k \in 1..Len(entries) |-> entries[k].name]

\* variant: the store becomes the loaded dict
handle_walkthrough_data_Replaced(walkthrough_loaded, existing_data_json) ==
    IF walkthrough_loaded # <<>>
    THEN /\ multi_tg_data_store' = walkthrough_loaded
         /\ multi_tg_filenames_display' =
                [total |-> Len(walkthrough_loaded),
                 processed |-> EntryNames(walkthrough_loaded),
                 errors |-> <<>>]
         /\ show_graph_cards' = TRUE
    ELSE /\ multi_tg_data_store' = existing_data_json
         /\ multi_tg_filenames_display' =
                [total |-> Len(existing_data_json), processed |-> <<>>,
                 errors |-> <<>>]
         /\ show_graph_cards' = (existing_data_json # <<>>)

\* handle_multi_tg_uploads triggered by walkthrough-data
handle_walkthrough_data(walkthrough_loaded, existing_data_json) ==
    LET current_data == DictUpdate(existing_data_json, walkthrough_loaded, 1)
    IN  IF walkthrough_loaded # <<>>
        THEN /\ multi_tg_data_store' = current_data
             /\ multi_tg_filenames_display' =
                    [total |-> Len(current_data),
                     processed |-> EntryNames(walkthrough_loaded),
                     errors |-> <<>>]
             /\ show_graph_cards' = TRUE
        ELSE /\ multi_tg_data_store' = existing_data_json
             /\ multi_tg_filenames_display' =
                    [total |-> Len(existing_data_json), processed |-> <<>>,
                     errors |-> <<>>]
             /\ show_graph_cards' = (existing_data_json # <<>>)

-----------------------------------------------------------------------------
(* The legend of the comparison page: a visibility dict is a function from *)
(* file names to booleans, the empty dict is <<>>                          *)

\* data_json.keys()
Keys(data_json) == {data_json[k].name : k \in 1..Len(data_json)}

\* vis_dict.get(k, True)
GetVisible(vis_dict, k) ==
    IF k \in DOMAIN vis_dict THEN vis_dict[k] ELSE TRUE

\* the keys of the old dict instead of those of the store
sync_vis_dict_OldKeys(data_json, vis_dict) ==
    IF data_json = <<>> THEN <<>>
    ELSE IF vis_dict = <<>> THEN [k \in Keys(data_json) |-> TRUE]
    ELSE [k \in DOMAIN vis_dict |-> vis_dict[k]]

sync_vis_dict(data_json, vis_dict) ==
    IF data_json = <<>> THEN <<>>
    ELSE IF vis_dict = <<>> THEN [k \in Keys(data_json) |-> TRUE]
    ELSE [k \in Keys(data_json) |-> GetVisible(vis_dict, k)]

\* ctx.triggered_id of update_visibility: the id of the store, or the id of
\* the eye of one legend row
StoreId == [type |-> "multi-tg-data-store", index |-> ""]
EyeId(fname) == [type |-> "legend-eye", index |-> fname]

\* update_visibility(_n_clicks_list, data_json, current_vis)
update_visibility(triggered_id, data_json, current_vis) ==
    LET synced_vis ==
            [filename \in Keys(data_json) |->
                GetVisible(current_vis, filename)]
        fname == triggered_id.index
    IN  IF data_json = <<>> THEN <<>>
        ELSE IF triggered_id.type = "legend-eye" /\ fname \in DOMAIN synced_vis
             THEN [synced_vis EXCEPT ![fname] = ~@]
        ELSE synced_vis

-----------------------------------------------------------------------------
(* The figures of the comparison page.  A figure is the exception the       *)
(* callback raised, if any, and the traces it drew.                         *)

\* "Temperature"
ColTemperature ==
    <<"T", "e", "m", "p", "e", "r", "a", "t", "u", "r", "e">>
\* "Mass"
ColMass ==
    <<"M", "a", "s", "s">>

\* "mass"
MassPattern ==
    <<"m", "a", "s", "s">>

\* the patterns the plots try on each lowered column name, joined by "or"
UnsubtractedWeightLowerPattern == Lower(UnsubtractedWeightPattern)

PlotMassPatterns ==
    {UnsubtractedWeightLowerPattern, WeightPattern, MassPattern, TgPattern}

\* "Sample Temperature" in df.columns / "Temperature" in df.columns
HasColumn(entry, name) ==
    \E i \in 1..Len(entry.columns) : entry.columns[i] = name

\* x_title, or None when the file has neither temperature column
XTitle(entry) ==
    IF HasColumn(entry, ColSampleTemperature)
    THEN Some("Sample Temperature (C)")
    ELSE IF HasColumn(entry, ColTemperature) THEN Some("Temperature (C)")
    ELSE None

\* the loop reaches y_data for this file: it is visible, has a temperature
\* column and has a mass column
Plotted(entry, vis_dict) ==
    /\ GetVisible(vis_dict, entry.name)
    /\ ~IsNone(XTitle(entry))
    /\ FirstColumn(entry.columns, PlotMassPatterns) # <<>>

\* norm_mass of the comparison page:
\* 100 * (y_data - fin_mass) / (init_mass - fin_mass), or zeros
ComparisonNormMass(y_data) ==
    LET init_mass == y_data[1]
        fin_mass == y_data[Len(y_data)]
    IN  IF init_mass - fin_mass # 0
        THEN [i \in 1..Len(y_data) |->
                 <<100 * (y_data[i] - fin_mass), init_mass - fin_mass>>]
        ELSE [i \in 1..Len(y_data) |-> <<0, 1>>]

\* the exception one pass of the loop of plot_multi_tg_dtg raises:
\* y_data[0] of a table without rows, or calc_smooth_derivative
DtgPassRaises(entry) ==
    IF entry.mass = <<>> THEN {"IndexError"}
    ELSE ComparisonCalcRaises(entry.temp, ComparisonNormMass(entry.mass),
                              DefaultWindowLength, DefaultPolyorder)

\* the trace one pass of the loop of plot_multi_tg_dtg adds
DtgPassTrace(entry) ==
    [name |-> entry.name, x |-> entry.temp,
     y |-> RescaleDeriv(
               ComparisonCalcDerivative(entry.temp,
                                        ComparisonNormMass(entry.mass),
                                        DefaultWindowLength,
                                        DefaultPolyorder))]

\* the loop of plot_multi_tg_dtg over data_json.items(): x_title is bound
\* by the first file with a temperature column
RECURSIVE DtgLoop(_, _, _, _)
DtgLoop(data_json, vis_dict, i, acc) ==
    IF i > Len(data_json) THEN acc
    ELSE LET entry == data_json[i]
             bound == IF GetVisible(vis_dict, entry.name)
                         /\ ~IsNone(XTitle(entry))
                      THEN [acc EXCEPT !.x_title = XTitle(entry)]
                      ELSE acc
         IN  IF ~Plotted(entry, vis_dict)
             THEN DtgLoop(data_json, vis_dict, i + 1, bound)
             ELSE IF DtgPassRaises(entry) # {}
                  THEN [bound EXCEPT !.raised = DtgPassRaises(entry)]
             ELSE DtgLoop(data_json, vis_dict, i + 1,
                      [bound EXCEPT
                          !.traces = Append(@, DtgPassTrace(entry))])

\* plot_multi_tg_dtg(data_json, vis_dict)
plot_multi_tg_dtg(data_json, vis_dict) ==
    LET synced == sync_vis_dict(data_json, vis_dict)
        done == DtgLoop(data_json, synced, 1,
                        [raised |-> {}, traces |-> <<>>, x_title |-> None])
    IN  IF data_json = <<>> \/ \A k \in DOMAIN synced : ~synced[k]
        THEN EmptyMultiTgFig
        ELSE IF done.raised # {}
             THEN [raised |-> done.raised, traces |-> <<>>]
        ELSE IF IsNone(done.x_title)
             THEN [raised |-> {"UnboundLocalError"}, traces |-> <<>>]
        ELSE [raised |-> {}, traces |-> done.traces]

\* the loop of plot_multi_tg_comparison
RECURSIVE ComparisonLoop(_, _, _, _)
ComparisonLoop(data_json, vis_dict, i, acc) ==
    IF i > Len(data_json) THEN acc
    ELSE LET entry == data_json[i]
         IN  IF ~Plotted(entry, vis_dict)
             THEN ComparisonLoop(data_json, vis_dict, i + 1, acc)
             ELSE IF entry.mass = <<>>
                  THEN [acc EXCEPT !.raised = {"IndexError"}]
             ELSE ComparisonLoop(data_json, vis_dict, i + 1,
                      [acc EXCEPT
                          !.traces =
                              Append(@, [name |-> entry.name,
                                         x |-> entry.temp,
                                         y |-> ComparisonNormMass(
                                                   entry.mass)])])

\* plot_multi_tg_comparison(data_json, vis_dict)
plot_multi_tg_comparison(data_json, vis_dict) ==
    LET synced == sync_vis_dict(data_json, vis_dict)
        done == ComparisonLoop(data_json, synced, 1,
                               [raised |-> {}, traces |-> <<>>])
    IN  IF data_json = <<>> \/ \A k \in DOMAIN synced : ~synced[k]
        THEN EmptyMultiTgFig
        ELSE IF done.raised # {}
             THEN [raised |-> done.raised, traces |-> <<>>]
        ELSE [raised |-> {}, traces |-> done.traces]

-----------------------------------------------------------------------------
(* manage_fixed_ftir_list *)

\* variant: the palette is indexed by the length after the append
PinColor_AfterAppend(fixed_list) ==
    PLOTLY_COLORS[((Len(fixed_list) + 1) % Len(PLOTLY_COLORS)) + 1]

\* PLOTLY_COLORS[len(fixed_list) % len(PLOTLY_COLORS)]
PinColor(fixed_list) ==
    PLOTLY_COLORS[(Len(fixed_list) % Len(PLOTLY_COLORS)) + 1]

\* variant: the append also refreshes the earlier entries from the figure
FixSpectrum_Refresh(fixed_list, fig, info_text) ==
    Append([i \in 1..Len(fixed_list) |->
               [fixed_list[i] EXCEPT !.y = fig.y, !.label = info_text]],
           [x |-> fig.x, y |-> fig.y, label |-> info_text,
            color |-> PLOTLY_COLORS[(Len(fixed_list) % Len(PLOTLY_COLORS)) + 1]])

\* fixed_list + [new_fixed_item]
FixSpectrum(fixed_list, fig, info_text) ==
    Append(fixed_list,
           [x |-> fig.x, y |-> fig.y, label |-> info_text,
            color |-> PinColor(fixed_list)])

\* variant: idx is taken as counted from 1
RECURSIVE RemoveFixed_FromOne(_, _)
RemoveFixed_FromOne(fixed_list, idx) ==
    IF fixed_list = <<>> THEN <<>>
    ELSE IF idx = 1 THEN RemoveFixed_FromOne(Tail(fixed_list), idx - 1)
    ELSE <<Head(fixed_list)>> \o RemoveFixed_FromOne(Tail(fixed_list), idx - 1)

\* [item for i, item in enumerate(fixed_list) if i != idx], idx counted from 0
RECURSIVE RemoveFixed(_, _)
RemoveFixed(fixed_list, idx) ==
    IF fixed_list = <<>> THEN <<>>
    ELSE IF idx = 0 THEN RemoveFixed(Tail(fixed_list), idx - 1)
    ELSE <<Head(fixed_list)>> \o RemoveFixed(Tail(fixed_list), idx - 1)

\* the n_clicks of the rendered remove buttons: None everywhere but at idx
RemoveClicks(fixed_list, idx, n_clicks) ==
    [i \in 1..Len(fixed_list) |-> IF i = idx + 1 THEN n_clicks ELSE None]

\* triggered by fix-ftir-btn
manage_fixed_ftir_list_fix(fixed_list, fig, info_text) ==
    IF ~fig.data
    THEN UNCHANGED <<fixed_ftir_list, pending>>
    ELSE /\ fixed_ftir_list' = FixSpectrum(fixed_list, fig, info_text)
         /\ pending' = Some("fixed-ftir-list")

\* triggered by {'type': 'remove-fixed-ftir', 'index': idx}
manage_fixed_ftir_list_remove(idx, remove_clicks, fixed_list) ==
    IF \/ remove_clicks = <<>>
       \/ idx >= Len(remove_clicks)
       \/ IsNone(remove_clicks[idx + 1])
       \/ Val(remove_clicks[idx + 1]) = 0
    THEN UNCHANGED <<fixed_ftir_list, pending>>
    ELSE /\ fixed_ftir_list' = RemoveFixed(fixed_list, idx)
         /\ pending' = Some("fixed-ftir-list")

-----------------------------------------------------------------------------
(* What the user does, and the callback each event runs *)

\* values typed into manual-time-input (None: the field is cleared)
ManualInputs == {None, Some(7500), Some(499500)}

\* shape coordinates a drag of the red line reports
DragValues == {-1500, 7003}

RelayoutEvents ==
    [x0 : {None} \cup {Some(v) : v \in DragValues},
     x1 : {None} \cup {Some(v) : v \in DragValues}]

NoRelayout == [x0 |-> None, x1 |-> None]

Idle == IsNone(pending)

Upload(stream, f) ==
    /\ Idle
    /\ contents' = [contents EXCEPT ![stream] = Some(f)]
    /\ update_status(contents'.tg, contents'.gs, contents'.ftir)
    /\ UNCHANGED <<show_gs, relayout_data, fixed_ftir_list>>
    /\ UNCHANGED <<chartOutputs, update_charts_error>>
    /\ UNCHANGED elsewhere

\* update_status run for another browser session of the same process: the
\* contents and the upload-status store are that session's, tg, gs and ftir
\* are the globals of the module
PeerUpload(stream, f) ==
    /\ peer_contents' = [peer_contents EXCEPT ![stream] = Some(f)]
    /\ peer_status' =
           [tg |-> StatusFlag(peer_contents'.tg, peer_status.tg),
            gs |-> StatusFlag(peer_contents'.gs, peer_status.gs),
            ftir |-> StatusFlag(peer_contents'.ftir, peer_status.ftir)]
    /\ tg' = TgAfterParse(peer_contents'.tg, tg)
    /\ gs' = GsAfterParse(peer_contents'.gs, gs)
    /\ ftir' = FtirAfterParse(peer_contents'.ftir, ftir)
    /\ UNCHANGED <<contents, status, pending, show_gs, relayout_data,
                   fixed_ftir_list>>
    /\ UNCHANGED <<chartOutputs, update_charts_error>>
    /\ UNCHANGED <<calls, comparison>>

\* files are dropped on upload-multi-tg of the comparison page
UploadMultiTgOf(list_of_contents) ==
    /\ handle_multi_tg_uploads(list_of_contents, multi_tg_data_store)
    /\ UNCHANGED <<contents, status, tg, gs, ftir, pending, show_gs,
                   relayout_data, fixed_ftir_list>>
    /\ UNCHANGED <<chartOutputs, update_charts_error>>
    /\ UNCHANGED <<peer_contents, peer_status, calls>>
    /\ UNCHANGED <<walkthrough_data, tg_legend_visibility, multiTgGraphs>>

UploadMultiTg ==
    \E list_of_contents \in UploadLists : UploadMultiTgOf(list_of_contents)

\* the rest of the state, which no callback of the comparison page writes
ComparisonLeaves ==
    /\ UNCHANGED <<contents, status, tg, gs, ftir, pending, show_gs,
                   relayout_data, fixed_ftir_list>>
    /\ UNCHANGED <<chartOutputs, update_charts_error>>
    /\ UNCHANGED <<peer_contents, peer_status, calls>>

\* walkthrough-btn is clicked: load_walkthrough reads the files that exist
\* and handle_multi_tg_uploads runs on the new walkthrough-data
ClickWalkthroughOf(assets) ==
    /\ walkthrough_data' = Some(load_walkthrough(assets))
    /\ handle_walkthrough_data(load_walkthrough(assets), multi_tg_data_store)
    /\ UNCHANGED <<tg_legend_visibility, multiTgGraphs>>
    /\ ComparisonLeaves

\* update_visibility runs: the store has changed, or the n_clicks of the eye
\* of a file of the legend has been set (None on a row just drawn)
UpdateVisibilityOf(triggered_id, n_clicks) ==
    /\ tg_legend_visibility' =
           update_visibility(triggered_id, multi_tg_data_store,
                             tg_legend_visibility)
    /\ UNCHANGED <<uploadOutputs, walkthrough_data, multiTgGraphs>>
    /\ ComparisonLeaves

UpdateVisibilityOnStore == UpdateVisibilityOf(StoreId, None)

UpdateVisibilityOnEye ==
    \E fname \in Keys(multi_tg_data_store) :
        \E n_clicks \in {None, Some(0), Some(1)} :
            UpdateVisibilityOf(EyeId(fname), n_clicks)

\* what a figure output holds after its callback: the new figure, or the
\* old traces when the callback raised
FigureAfter(result, old) ==
    IF result.raised # {}
    THEN [raised |-> result.raised, traces |-> old.traces]
    ELSE result

\* plot_multi_tg_dtg runs on the store and the visibility dict
PlotMultiTgDtg ==
    /\ multi_tg_dtg_graph' =
           FigureAfter(plot_multi_tg_dtg(multi_tg_data_store,
                                         tg_legend_visibility),
                       multi_tg_dtg_graph)
    /\ UNCHANGED <<uploadOutputs, walkthrough_data, tg_legend_visibility,
                   multi_tg_comparison_graph>>
    /\ ComparisonLeaves

\* plot_multi_tg_comparison runs on the store and the visibility dict
PlotMultiTgComparison ==
    /\ multi_tg_comparison_graph' =
           FigureAfter(plot_multi_tg_comparison(multi_tg_data_store,
                                                tg_legend_visibility),
                       multi_tg_comparison_graph)
    /\ UNCHANGED <<uploadOutputs, walkthrough_data, tg_legend_visibility,
                   multi_tg_dtg_graph>>
    /\ ComparisonLeaves

UploadTg == \E f \in TgFiles : Upload("tg", f)
UploadGs == \E f \in GsFiles : Upload("gs", f)
UploadFtir == \E f \in FtirFiles : Upload("ftir", f)

\* toggle_gs(n, show) with n >= 1
ToggleGs ==
    /\ Idle /\ chart_visible
    /\ show_gs' = ~show_gs
    /\ pending' = Some("show-gs-store")
    /\ UNCHANGED <<contents, status, tg, gs, ftir, relayout_data,
                   fixed_ftir_list>>
    /\ UNCHANGED <<chartOutputs, update_charts_error>>
    /\ UNCHANGED elsewhere

\* the user commits a value in manual-time-input
ManualTimeInputOf(v) ==
    /\ Idle /\ chart_visible
    /\ update_charts(Some("manual-time-input"), status, show_gs,
                     relayout_data, v, fixed_ftir_list)
    /\ UNCHANGED <<contents, status, tg, gs, ftir, show_gs, relayout_data,
                   fixed_ftir_list, pending>>
    /\ UNCHANGED elsewhere

ManualTimeInput == \E v \in ManualInputs : ManualTimeInputOf(v)

\* the user moves a shape of time-temp-chart, or relayouts it otherwise
TimeTempRelayoutOf(rd) ==
    /\ Idle /\ chart_visible
    /\ relayout_data' = rd
    /\ update_charts(Some("time-temp-chart"), status, show_gs, rd,
                     manual_time, fixed_ftir_list)
    /\ UNCHANGED <<contents, status, tg, gs, ftir, show_gs,
                   fixed_ftir_list, pending>>
    /\ UNCHANGED elsewhere

TimeTempRelayout == \E rd \in RelayoutEvents : TimeTempRelayoutOf(rd)

\* a store written by another callback reaches update_charts
StoreChanged ==
    /\ ~Idle
    /\ update_charts(pending, status, show_gs, relayout_data, manual_time,
                     fixed_ftir_list)
    /\ pending' = None
    /\ UNCHANGED <<contents, status, tg, gs, ftir, show_gs, relayout_data,
                   fixed_ftir_list>>
    /\ UNCHANGED elsewhere

FixFtir(maxPins) ==
    /\ Idle /\ chart_visible
    /\ Len(fixed_ftir_list) < maxPins
    /\ manage_fixed_ftir_list_fix(fixed_ftir_list, ftir_graph, info_button)
    /\ UNCHANGED <<contents, status, tg, gs, ftir, show_gs, relayout_data>>
    /\ UNCHANGED <<chartOutputs, update_charts_error>>
    /\ UNCHANGED elsewhere

\* n_clicks = 1: the button was pressed; None: it was only rendered anew
RemoveFixedFtirOf(idx, n_clicks, maxFrom) ==
    /\ Idle /\ chart_visible
    /\ Len(fixed_ftir_list) <= maxFrom
    /\ manage_fixed_ftir_list_remove(
           idx, RemoveClicks(fixed_ftir_list, idx, n_clicks), fixed_ftir_list)
    /\ UNCHANGED <<contents, status, tg, gs, ftir, show_gs, relayout_data>>
    /\ UNCHANGED <<chartOutputs, update_charts_error>>
    /\ UNCHANGED elsewhere

RemoveFixedFtir(maxFrom) ==
    \E idx \in 0..(Len(fixed_ftir_list) - 1), n_clicks \in {None, Some(1)} :
        RemoveFixedFtirOf(idx, n_clicks, maxFrom)

-----------------------------------------------------------------------------
(* The session: the state after the page has loaded and its callbacks have *)
(* run once with nothing uploaded                                          *)

\* no second session, no call of calc_smooth_derivative on its own, and the
\* comparison page as its layout makes it
NoPeer ==
    /\ peer_contents = [tg |-> None, gs |-> None, ftir |-> None]
    /\ peer_status = [tg |-> FALSE, gs |-> FALSE, ftir |-> FALSE]

NoComparison ==
    /\ multi_tg_data_store = <<>>
    /\ multi_tg_filenames_display = NoFeedback
    /\ show_graph_cards = FALSE
    /\ walkthrough_data = None
    /\ tg_legend_visibility = <<>>
    /\ multi_tg_dtg_graph = EmptyMultiTgFig
    /\ multi_tg_comparison_graph = EmptyMultiTgFig

NothingElsewhere ==
    /\ NoPeer
    /\ deriv_call = NoCall
    /\ axis_call = NoAxisCall
    /\ NoComparison

\* the layout's stores and props, and the outputs of the first update_charts
Fresh ==
    /\ show_gs = FALSE
    /\ relayout_data = NoRelayout
    /\ manual_time = None
    /\ fixed_ftir_list = <<>>
    /\ chart_visible = FALSE
    /\ mass_temp_chart = EmptyMassFig
    /\ time_temp_chart = EmptyTimeFig
    /\ ftir_graph = EmptyFtirFig
    /\ info_button = EmptyInfo
    /\ update_charts_error = None

\* the first session before any upload
NothingUploaded ==
    /\ contents = [tg |-> None, gs |-> None, ftir |-> None]
    /\ status = [tg |-> FALSE, gs |-> FALSE, ftir |-> FALSE]
    /\ tg = NoTg
    /\ gs = NoGs
    /\ ftir = NoFtir
    /\ Fresh
    /\ pending = None

Init ==
    /\ NothingUploaded
    /\ NothingElsewhere

Next ==
    \/ UploadTg
    \/ UploadGs
    \/ UploadFtir
    \/ ToggleGs
    \/ ManualTimeInput
    \/ TimeTempRelayout
    \/ StoreChanged
    \/ FixFtir(MaxPins)
    \/ RemoveFixedFtir(MaxPins)

Spec == Init /\ [][Next]_vars

-----------------------------------------------------------------------------
(* Sessions that start with three parsed uploads, before update_charts has *)
(* seen the new upload-status                                              *)

Loaded(tgf, gsf, ftirf) ==
    /\ contents = [tg |-> Some(tgf), gs |-> Some(gsf), ftir |-> Some(ftirf)]
    /\ status = [tg |-> TRUE, gs |-> TRUE, ftir |-> TRUE]
    /\ tg = TgFrame(tgf)
    /\ gs = GsFrame(gsf)
    /\ ftir = FtirFrame(ftirf, TRUE)
    /\ Fresh
    /\ pending = Some("upload-status")
    /\ NothingElsewhere

\* SpecPins: one loaded session in which spectra are pinned and unpinned
InitPins == Loaded(TgFileA, GsFileA, FtirFileA)

NextPins ==
    \/ StoreChanged
    \/ ToggleGs
    \/ FixFtir(MaxPinRun)
    \/ RemoveFixedFtir(MaxUnpinLen)

SpecPins == InitPins /\ [][NextPins]_vars

\* SpecSelect: any small spectral matrix, times selected all over the domain
SelectMax == 2 * MaxTimeSteps + 1

SelectFtirFiles ==
    {[name |-> "ftir", kind |-> "ok", wn |-> <<4000, 650>>, times |-> ts,
      rows |-> [i \in 1..Len(ts) |-> <<90 - i, 80 - i>>]] :
        ts \in SeqsOf({2 * k : k \in 0..MaxTimeSteps}, 1, MaxRows)}

SelectGsFiles ==
    {[name |-> "gs", kind |-> "ok", time |-> ts] :
        ts \in {<<0, SelectMax>>, <<SelectMax - 1, 2, 1>>}}

SelectInputs == {None} \cup {Some(v) : v \in 0..SelectMax}

SelectRelayouts == [x0 : {None, Some(1)}, x1 : {None, Some(3)}]

InitSelect ==
    \E gsf \in SelectGsFiles, ftirf \in SelectFtirFiles :
        Loaded(TgFileA, gsf, ftirf)

NextSelect ==
    \/ StoreChanged
    \/ ToggleGs
    \/ \E v \in SelectInputs : ManualTimeInputOf(v)
    \/ \E rd \in SelectRelayouts : TimeTempRelayoutOf(rd)

SpecSelect == InitSelect /\ [][NextSelect]_vars

\* SpecNorm: any short mass column
InitNorm == \E tgf \in NormTgFiles : Loaded(tgf, GsFileA, FtirFileA)

NextNorm ==
    \/ StoreChanged
    \/ ToggleGs

SpecNorm == InitNorm /\ [][NextNorm]_vars

\* SpecDtg: any short TG file, its sample temperature rising, falling, back
\* at its first value at the end, or constant
DtgTemps(n) ==
    {[i \in 1..n |-> 20 + 10 * i], [i \in 1..n |-> 100 - 10 * i],
     [i \in 1..n |-> IF i = n THEN 30 ELSE 20 + 10 * i],
     [i \in 1..n |-> 30]}

DtgTgFiles ==
    UNION {{[name |-> "tg", kind |-> "ok", temp |-> t, mass |-> m] :
                t \in DtgTemps(Len(m))} :
              m \in SeqsOf({2, 4, 6}, 1, MaxDtgLen)}

InitDtg == \E tgf \in DtgTgFiles : Loaded(tgf, GsFileA, FtirFileA)

NextDtg ==
    \/ StoreChanged
    \/ ToggleGs

SpecDtg == InitDtg /\ [][NextDtg]_vars

\* SpecRound: a GS time column from 0 s to 120 s and one from 5.004 s to
\* 49.996 s; times typed and dragged on and off the grid of 0.01 s
RoundGsFiles ==
    {[name |-> "gs", kind |-> "ok", time |-> ts] :
        ts \in {<<0, 60000>>, <<2502, 12001, 24998>>}}

\* 45.7 s, 5 s, 50 s
RoundInputs == {None, Some(22850), Some(2500), Some(25000)}

\* 45.706 s, 5.006 s
RoundRelayouts == [x0 : {None, Some(22853), Some(2503)}, x1 : {None}]

InitRound == \E gsf \in RoundGsFiles : Loaded(TgFileA, gsf, FtirFileA)

NextRound ==
    \/ StoreChanged
    \/ ToggleGs
    \/ \E v \in RoundInputs : ManualTimeInputOf(v)
    \/ \E rd \in RoundRelayouts : TimeTempRelayoutOf(rd)

SpecRound == InitRound /\ [][NextRound]_vars

\* SpecEmpty: a session that also uploads an FTIR file without spectra
EmptyFtirFiles == {FtirFileA, FtirFileEmpty}

UploadFtirEmpty == \E f \in EmptyFtirFiles : Upload("ftir", f)

NextEmpty ==
    \/ UploadTg
    \/ UploadGs
    \/ UploadFtirEmpty
    \/ ToggleGs
    \/ ManualTimeInput
    \/ StoreChanged

SpecEmpty == Init /\ [][NextEmpty]_vars

\* SpecShared: two sessions of the same process, their callbacks interleaved
PeerUploadTg == PeerUpload("tg", PeerTgFile)
PeerUploadGs == PeerUpload("gs", PeerGsFile)
PeerUploadFtir == PeerUpload("ftir", PeerFtirFile)

NextShared ==
    \/ UploadTg
    \/ UploadGs
    \/ UploadFtir
    \/ PeerUploadTg
    \/ PeerUploadGs
    \/ PeerUploadFtir
    \/ ToggleGs
    \/ ManualTimeInput
    \/ StoreChanged

SpecShared == Init /\ [][NextShared]_vars

\* SpecColumns: the comparison page, tables dropped on it one after another
NextColumns == UploadMultiTg

SpecColumns == Init /\ [][NextColumns]_vars

\* SpecLegend: the comparison page with manual uploads, the walkthrough and
\* the legend.  a.csv holds one of two tables or cannot be read, b.csv holds
\* one table; a file may carry the label of a walkthrough file.
LegendFiles ==
    {TableFile("a.csv", <<ColSampleTemperature, ColWeight>>, <<30, 40, 50>>,
               <<4, 6, 2>>),
     TableFile("a.csv", <<ColTime, ColWeight>>, <<30, 40, 50>>, <<6, 4, 2>>),
     UnreadableTable("a.csv"),
     TableFile("b.csv", <<ColTemperature, ColMass>>, <<30, 40, 50>>,
               <<6, 4, 2>>),
     TableFile(WalkthroughLabels[1], <<ColTime, ColWeight>>, <<30, 40, 50>>,
               <<6, 4, 2>>)}

\* one drop: nothing, one file, or two files of which the first is a.csv
LegendUploadLists ==
    {<<>>} \cup {<<f>> : f \in LegendFiles}
    \cup {<<f, g>> : f \in {h \in LegendFiles : h.name = "a.csv"},
                     g \in {h \in LegendFiles : h.kind = "ok"}}

\* the files under assets/: none, the first, or both
WalkthroughAssets ==
    {<<None, None>>,
     <<Some(TableFile("", <<ColSampleTemperature, ColWeight>>, <<30, 40, 50>>,
                      <<6, 4, 2>>)), None>>,
     <<Some(TableFile("", <<ColSampleTemperature, ColWeight>>, <<30, 40, 50>>,
                      <<6, 4, 2>>)),
       Some(TableFile("", <<ColSampleTemperature, ColProgramTemperature,
                            ColWeight>>, <<30, 40, 50>>, <<6, 5, 2>>))>>}

UploadLegendFiles ==
    \E list_of_contents \in LegendUploadLists :
        UploadMultiTgOf(list_of_contents)

ClickWalkthrough == \E assets \in WalkthroughAssets : ClickWalkthroughOf(assets)

NextLegend ==
    \/ UploadLegendFiles
    \/ ClickWalkthrough
    \/ UpdateVisibilityOnStore
    \/ UpdateVisibilityOnEye

SpecLegend == Init /\ [][NextLegend]_vars

\* SpecPlots: the comparison page with its two figures.  The tables: a mass
\* that rises before it falls, a table without temperature column, a table
\* of two rows, a table read by its first two columns, a temperature that
\* does not move.
PlotFiles ==
    {TableFile("a.csv", <<ColSampleTemperature, ColWeight>>, <<30, 40, 50>>,
               <<4, 6, 2>>),
     TableFile("a.csv", <<ColTime, ColWeight>>, <<30, 40, 50>>, <<6, 4, 2>>),
     TableFile("a.csv", <<ColSampleTemperature, ColTg>>, <<30, 40>>,
               <<6, 4>>),
     TableFile("b.csv", <<ColTemperature, ColMass>>, <<30, 40, 50>>,
               <<6, 4, 2>>),
     TableFile("b.csv", <<ColSampleTemperature, ColWeight>>, <<30, 30, 30>>,
               <<6, 4, 2>>)}

UploadPlotFiles == \E f \in PlotFiles : UploadMultiTgOf(<<f>>)

NextPlots ==
    \/ UploadPlotFiles
    \/ UpdateVisibilityOnStore
    \/ UpdateVisibilityOnEye
    \/ PlotMultiTgDtg
    \/ PlotMultiTgComparison

SpecPlots == Init /\ [][NextPlots]_vars

\* SpecDeriv: calc_smooth_derivative called on its own with any short series,
\* any window and any order up to 3
DerivSeries == SeqsOf({<<1, 1>>, <<3, 1>>}, 0, MaxSeries)

\* an x axis that rises, and one whose last sample is back at the first
DerivXs(n) == {[i \in 1..n |-> i], [i \in 1..n |-> IF i = n THEN 1 ELSE i]}

DerivWindows ==
    {0, 2, 3, 4, MaxSeries, MaxSeries + 1, DefaultWindowLength}

DerivPolyorders == 0..3

DerivCalls ==
    UNION {{[x |-> x, y |-> y, window_length |-> w, polyorder |-> p,
             called |-> FALSE, result |-> NoCall.result] :
                x \in DerivXs(Len(y)), w \in DerivWindows,
                p \in DerivPolyorders} : y \in DerivSeries}

InitDeriv ==
    /\ NothingUploaded
    /\ NoPeer
    /\ NoComparison
    /\ axis_call = NoAxisCall
    /\ deriv_call \in DerivCalls

CallCalcSmoothDerivative ==
    /\ ~deriv_call.called
    /\ deriv_call' =
           [deriv_call EXCEPT
               !.called = TRUE,
               !.result = calc_smooth_derivative(
                              deriv_call.x, deriv_call.y,
                              deriv_call.window_length, deriv_call.polyorder)]
    /\ UNCHANGED <<contents, status, tg, gs, ftir, show_gs, relayout_data,
                   fixed_ftir_list, pending, chartOutputs,
                   update_charts_error, peer_contents, peer_status,
                   axis_call, comparison>>

NextDeriv == CallCalcSmoothDerivative

SpecDeriv == InitDeriv /\ [][NextDeriv]_vars

\* SpecDerivComparison: calc_smooth_derivative of the comparison page called
\* on its own, on the series, windows and orders of SpecDeriv
CallComparisonCalcSmoothDerivative ==
    /\ ~deriv_call.called
    /\ deriv_call' =
           [deriv_call EXCEPT
               !.called = TRUE,
               !.result = tg_comparison_calc_smooth_derivative(
                              deriv_call.x, deriv_call.y,
                              deriv_call.window_length, deriv_call.polyorder)]
    /\ UNCHANGED <<contents, status, tg, gs, ftir, show_gs, relayout_data,
                   fixed_ftir_list, pending, chartOutputs,
                   update_charts_error, peer_contents, peer_status,
                   axis_call, comparison>>

NextDerivComparison == CallComparisonCalcSmoothDerivative

SpecDerivComparison == InitDeriv /\ [][NextDerivComparison]_vars

\* SpecAxis: the wavenumber axis built on its own from any short row of
\* headers: numbers, texts that read as numbers, texts that do not
HeaderLabels ==
    {NumberHeader(4000), NumberHeader(650),
     TextHeader(<<"6", "5", "0", ",", "5">>),
     TextHeader(<<"6", "5", "0", ".", "5">>),
     TextHeader(<<" ", "1", "2">>),
     TextHeader(<<"a", "b", "c">>),
     TextHeader(<<"1", ",", "2", ".", "3">>),
     TextHeader(<<>>)}

HeaderRows ==
    {h \in SeqsOf(HeaderLabels, 0, MaxHeaders) :
        \A i, j \in 1..Len(h) : h[i] = h[j] => i = j}

InitAxis ==
    /\ NothingUploaded
    /\ NoPeer
    /\ NoComparison
    /\ deriv_call = NoCall
    /\ axis_call \in {[NoAxisCall EXCEPT !.headers = h] : h \in HeaderRows}

BuildWavenumberAxis ==
    /\ ~axis_call.called
    /\ axis_call' =
           [axis_call EXCEPT
               !.called = TRUE, !.result = WavenumberAxis(axis_call.headers)]
    /\ UNCHANGED <<contents, status, tg, gs, ftir, show_gs, relayout_data,
                   fixed_ftir_list, pending, chartOutputs,
                   update_charts_error, peer_contents, peer_status,
                   deriv_call, comparison>>

NextAxis == BuildWavenumberAxis

SpecAxis == InitAxis /\ [][NextAxis]_vars

-----------------------------------------------------------------------------
(* Selected time *)

\* the minimum and maximum of a column, as the least and greatest element
ColMin(col) ==
    CHOOSE a \in {col[i] : i \in 1..Len(col)} :
        \A i \in 1..Len(col) : a <= col[i]
ColMax(col) ==
    CHOOSE a \in {col[i] : i \in 1..Len(col)} :
        \A i \in 1..Len(col) : a >= col[i]

\* the red line of time-temp-chart is drawn at time t
LineAt(fig, t) == fig.data /\ fig.line = Some(t)

\* the candidate the precedence order yields
PrecedenceCandidate(manualTrigger, dragTrigger, manual, rd, col) ==
    CASE manualTrigger /\ manual # None -> Val(manual)
      [] ~(manualTrigger /\ manual # None) /\ dragTrigger /\ rd.x0 # None ->
            Val(rd.x0)
      [] ~(manualTrigger /\ manual # None) /\ dragTrigger /\ rd.x0 = None
            /\ rd.x1 # None -> Val(rd.x1)
      [] ~(manualTrigger /\ manual # None)
            /\ ~(dragTrigger /\ (rd.x0 # None \/ rd.x1 # None))
            /\ manual # None -> Val(manual)
      [] OTHER -> ColMin(col)

Within(c, col) ==
    IF c < ColMin(col) THEN ColMin(col)
    ELSE IF c > ColMax(col) THEN ColMax(col) ELSE c

\* C1: whatever the trigger, the manual value and the relayout data of an
\* update_charts call that shows the charts, the time it selects is the
\* candidate of the precedence order (manual input that triggered, then a
\* moved shape's x0, else x1, then the manual value already there, then the
\* minimum of the GS time column), brought into the GS time domain.
C1_Precedence ==
    [][/\ \A v \in ManualInputs :
              ManualTimeInputOf(v) /\ chart_visible' =>
                  LineAt(time_temp_chart',
                         Within(PrecedenceCandidate(TRUE, FALSE, v,
                                                    relayout_data, gs.time),
                                gs.time))
       /\ \A rd \in RelayoutEvents :
              TimeTempRelayoutOf(rd) /\ chart_visible' =>
                  LineAt(time_temp_chart',
                         Within(PrecedenceCandidate(FALSE, TRUE, manual_time,
                                                    rd, gs.time),
                                gs.time))
       /\ StoreChanged /\ chart_visible' =>
              LineAt(time_temp_chart',
                     Within(PrecedenceCandidate(FALSE, FALSE, manual_time,
                                                relayout_data, gs.time),
                            gs.time))]_vars

\* a drag whose x0 and x1 differ has selected x0 although a manual value exists
C1_Witness ==
    /\ relayout_data = [x0 |-> Some(7003), x1 |-> Some(-1500)]
    /\ LineAt(time_temp_chart, 7003)
    /\ manual_time = Some(7005)

\* C2: the selected time of the shown charts lies in [min, max] of the GS time
\* column; a manual value or a dragged coordinate below the column's minimum
\* selects the minimum, one above its maximum selects the maximum, and the
\* call still shows the charts.
C2_Clamped ==
    [][/\ chart_visible' /\ Idle' =>
              /\ time_temp_chart'.data
              /\ Val(time_temp_chart'.line) >= ColMin(gs'.time)
              /\ Val(time_temp_chart'.line) <= ColMax(gs'.time)
       /\ \A v \in ManualInputs :
              ManualTimeInputOf(v) /\ v # None =>
                  /\ chart_visible'
                  /\ Val(v) < ColMin(gs.time) =>
                         LineAt(time_temp_chart', ColMin(gs.time))
                  /\ Val(v) > ColMax(gs.time) =>
                         LineAt(time_temp_chart', ColMax(gs.time))
       /\ \A rd \in RelayoutEvents :
              TimeTempRelayoutOf(rd) /\ rd.x0 # None =>
                  /\ chart_visible'
                  /\ Val(rd.x0) < ColMin(gs.time) =>
                         LineAt(time_temp_chart', ColMin(gs.time))
                  /\ Val(rd.x0) > ColMax(gs.time) =>
                         LineAt(time_temp_chart', ColMax(gs.time))]_vars

\* 999 s was typed over the domain [5 s, 50 s] and 50 s is selected
C2_Witness ==
    /\ gs.time = <<2500, 12001, 25000>>
    /\ LineAt(time_temp_chart, 25000)
    /\ manual_time = Some(25000)

-----------------------------------------------------------------------------
(* Closest spectrum *)

Dist(a, b) == IF a >= b THEN a - b ELSE b - a

\* row i of the matrix is the nearest to t, and the first of the nearest
FirstNearest(f, i, t) ==
    /\ \A j \in 1..Len(f.times) : Dist(f.times[i], t) <= Dist(f.times[j], t)
    /\ \A j \in 1..(i - 1) : Dist(f.times[j], t) > Dist(f.times[i], t)

\* C3: the spectrum shown is the row of the spectral matrix whose acquisition
\* time is nearest to the selected time, and of several rows equally near the
\* one with the lowest index.
C3_ClosestSpectrum ==
    chart_visible =>
        \E i \in 1..Len(ftir.times) :
            /\ FirstNearest(ftir, i, Val(time_temp_chart.line))
            /\ ftir_graph.data
            /\ ftir_graph.y = ftir.rows[i]
            /\ ftir_graph.x = ftir.wn
            /\ ftir_graph.closest_time = Some(ftir.times[i])

\* the selected time 3 is as far from the row at 2 as from the row at 4, and
\* the row at 2, the earlier of the two, is shown
C3_Witness ==
    /\ ftir.times = <<0, 2, 4>>
    /\ LineAt(time_temp_chart, 3)
    /\ ftir_graph.y = ftir.rows[2]
    /\ ftir_graph.closest_time = Some(2)

-----------------------------------------------------------------------------
(* Pinned spectra *)

\* list b is list a without its entry at position p (counted from 1)
Without(a, b, p) ==
    /\ Len(b) = Len(a) - 1
    /\ \A j \in 1..Len(b) : b[j] = IF j < p THEN a[j] ELSE a[j + 1]

\* list b is list a with one entry more at its end
OneMore(a, b) ==
    /\ Len(b) = Len(a) + 1
    /\ \A j \in 1..Len(a) : b[j] = a[j]

\* C4: pinning the spectrum of a figure that has data returns the list with
\* exactly one entry more, at its end: the figure's first trace and the info
\* text, coloured PLOTLY_COLORS[len(list) mod 10]; nothing else lengthens the
\* list.
C4_PinAppends ==
    [][/\ FixFtir(MaxPinRun) /\ ftir_graph.data =>
              Len(fixed_ftir_list') = Len(fixed_ftir_list) + 1
       /\ Len(fixed_ftir_list') > Len(fixed_ftir_list) =>
              /\ OneMore(fixed_ftir_list, fixed_ftir_list')
              /\ fixed_ftir_list'[Len(fixed_ftir_list')] =
                     [x |-> ftir_graph.x, y |-> ftir_graph.y,
                      label |-> info_button,
                      color |-> PLOTLY_COLORS[(Len(fixed_ftir_list) % 10) + 1]]
      ]_vars

\* eleven pins in the order of the palette: the eleventh has the colour of the
\* first
C4_Witness ==
    /\ Len(fixed_ftir_list) = 11
    /\ \A i \in 1..10 : fixed_ftir_list[i].color = PLOTLY_COLORS[i]
    /\ fixed_ftir_list[11].color = fixed_ftir_list[1].color

\* C5: a pressed remove button of index idx returns the list without the entry
\* at idx and with every other entry as it was (x, y, label, colour), in the
\* same order.
C5_UnpinRemovesOnlyIndex ==
    [][\A idx \in 0..(Len(fixed_ftir_list) - 1) :
           RemoveFixedFtirOf(idx, Some(1), MaxUnpinLen) =>
               Without(fixed_ftir_list, fixed_ftir_list', idx + 1)]_vars

\* the second of three pins was removed: the first and the third keep their
\* colours
C5_Witness ==
    /\ Len(fixed_ftir_list) = 2
    /\ fixed_ftir_list[1].color = PLOTLY_COLORS[1]
    /\ fixed_ftir_list[2].color = PLOTLY_COLORS[3]

\* C6: no step of the session changes an entry of the pinned list or the order
\* of its entries: a step leaves the list as it is, adds one entry at its end,
\* or takes one entry out of it.
C6_SnapshotsImmutable ==
    [][\/ fixed_ftir_list' = fixed_ftir_list
       \/ OneMore(fixed_ftir_list, fixed_ftir_list')
       \/ \E p \in 1..Len(fixed_ftir_list) :
              Without(fixed_ftir_list, fixed_ftir_list', p)]_vars

\* two spectra pinned at different times, the GS trace toggled and an
\* unreadable FTIR file uploaded since: both pins are still there
C6_Witness ==
    /\ Len(fixed_ftir_list) = 2
    /\ fixed_ftir_list[1].label.selected = Some(7003)
    /\ fixed_ftir_list[2].label.selected = Some(25000)
    /\ fixed_ftir_list[1].y # fixed_ftir_list[2].y
    /\ show_gs
    /\ contents.ftir = Some(FtirFileBad)
    /\ ~chart_visible

\* C7: while the pinned list holds at most 10 entries, no two of them have the
\* same colour.
C7_DistinctColours ==
    Len(fixed_ftir_list) <= 10 =>
        \A i, j \in 1..Len(fixed_ftir_list) :
            i # j => fixed_ftir_list[i].color # fixed_ftir_list[j].color

-----------------------------------------------------------------------------
(* Normalised mass curve *)

\* the fraction q is a number (its denominator is not 0) and equals n
IsNumber(q) == q[2] # 0
Equals(q, n) == IsNumber(q) /\ q[1] = n * q[2]

\* the TG trace of the shown mass-temp-chart
Curve == mass_temp_chart.tg

\* C8: the TG trace has one value per mass sample; with hi = max(mass) and
\* lo = min(mass), value i is 100*(mass[i]-lo)/(hi-lo) when hi # lo, and every
\* value is 0 when hi = lo; no value is the result of a division by zero.
C8_NormalizedFromExtrema ==
    chart_visible =>
        LET m == tg.mass
            hi == ColMax(m)
            lo == ColMin(m)
        IN  /\ mass_temp_chart.data
            /\ Len(Curve) = Len(m)
            /\ \A i \in 1..Len(m) :
                   /\ IsNumber(Curve[i])
                   /\ hi # lo =>
                          Curve[i][1] * (hi - lo) =
                              100 * (m[i] - lo) * Curve[i][2]
                   /\ hi = lo => Equals(Curve[i], 0)

\* a constant mass column of three samples is shown as three zeros
C8_Witness ==
    /\ chart_visible
    /\ tg.mass = <<4, 4, 4>>
    /\ Len(Curve) = 3
    /\ \A i \in 1..3 : Equals(Curve[i], 0)

\* C9 as claimed: the sample equal to max(mass) is shown as 0 and the sample
\* equal to min(mass) as 100; [10, 8, 6, 4, 2] is shown as [0, 25, 50, 75, 100].
C9_MaxToZero ==
    chart_visible /\ ColMax(tg.mass) # ColMin(tg.mass) =>
        /\ \A i \in 1..Len(tg.mass) :
               /\ tg.mass[i] = ColMax(tg.mass) => Equals(Curve[i], 0)
               /\ tg.mass[i] = ColMin(tg.mass) => Equals(Curve[i], 100)
        /\ tg.mass = <<10, 8, 6, 4, 2>> =>
               \A i \in 1..5 : Equals(Curve[i], 25 * (i - 1))

\* C9, amended: the sample equal to max(mass) is shown as 100 and the sample
\* equal to min(mass) as 0; [10, 8, 6, 4, 2] is shown as [100, 75, 50, 25, 0].
C9_MaxToHundred ==
    chart_visible /\ ColMax(tg.mass) # ColMin(tg.mass) =>
        /\ \A i \in 1..Len(tg.mass) :
               /\ tg.mass[i] = ColMax(tg.mass) => Equals(Curve[i], 100)
               /\ tg.mass[i] = ColMin(tg.mass) => Equals(Curve[i], 0)
        /\ tg.mass = <<10, 8, 6, 4, 2>> =>
               \A i \in 1..5 : Equals(Curve[i], 25 * (5 - i))

\* the mass column [10, 8, 6, 4, 2] is shown, from 100 down to 0
C9_Witness ==
    /\ chart_visible
    /\ tg.mass = <<10, 8, 6, 4, 2>>
    /\ Equals(Curve[1], 100)
    /\ Equals(Curve[3], 50)
    /\ Equals(Curve[5], 0)

\* C10: when max(mass) # min(mass), every value of the TG trace is a number
\* from 0 to 100, whatever the order of the samples.
C10_RangeZeroToHundred ==
    chart_visible /\ ColMax(tg.mass) # ColMin(tg.mass) =>
        \A i \in 1..Len(Curve) :
            /\ IsNumber(Curve[i])
            /\ Curve[i][1] * Curve[i][2] >= 0
            /\ (Curve[i][1] - 100 * Curve[i][2]) * Curve[i][2] <= 0

\* a mass column that rises and falls is shown, its second sample the maximum
C10_Witness ==
    /\ chart_visible
    /\ tg.mass = <<4, 10, 2, 6>>
    /\ Equals(Curve[2], 100)
    /\ Equals(Curve[3], 0)
    /\ Equals(Curve[1], 25)

-----------------------------------------------------------------------------
(* Smoothed derivative *)

\* the call made and what it gave
Series == deriv_call.y
Returned == deriv_call.result

\* C11: calc_smooth_derivative called with a series of 0, 1 or 2 points
\* returns the series as it is and a derivative of the same length that is 0
\* everywhere; it does not call the Savitzky-Golay filter and does not raise.
C11_ShortSeriesUnchanged ==
    deriv_call.called /\ Len(Series) < 3 =>
        /\ Returned.raised = {}
        /\ Returned.savgol = <<>>
        /\ Returned.y_smooth = Series
        /\ Len(Returned.dy_dx) = Len(Series)
        /\ \A i \in 1..Len(Series) : Equals(Returned.dy_dx[i], 0)

\* the series [1, 3] with the default window came back with derivative [0, 0]
C11_Witness ==
    /\ deriv_call.called
    /\ Series = <<<<1, 1>>, <<3, 1>>>>
    /\ deriv_call.window_length = 21
    /\ Returned.y_smooth = <<<<1, 1>>, <<3, 1>>>>
    /\ Returned.dy_dx = <<<<0, 1>>, <<0, 1>>>>

\* the window the claimed procedure yields for n points and a requested w
ClaimedWindow(n, w) ==
    LET a == IF w >= n THEN (IF (n - 1) % 2 = 1 THEN n - 1 ELSE n) ELSE w
        b == IF a < 3 THEN 3 ELSE a
    IN  IF b % 2 = 0 THEN b + 1 ELSE b

\* C12 as claimed: for a series of 3 points or more and any requested window,
\* the window of every call of the filter is odd, strictly less than the
\* length of the series, and the one the procedure yields.
C12_WindowOddBelowLength ==
    deriv_call.called /\ Len(Series) >= 3 =>
        /\ Len(Returned.savgol) >= 1
        /\ \A k \in 1..Len(Returned.savgol) :
               LET w == Returned.savgol[k].window_length
               IN  /\ w % 2 = 1
                   /\ w < Len(Series)
                   /\ w = ClaimedWindow(Len(Series), deriv_call.window_length)

\* C12, amended: for a series of 3 points or more and any requested window,
\* the window of every call of the filter is odd, at least 3 and at most the
\* length of the series, and the one the procedure yields.
C12_WindowOddWithinLength ==
    deriv_call.called /\ Len(Series) >= 3 =>
        /\ Len(Returned.savgol) >= 1
        /\ \A k \in 1..Len(Returned.savgol) :
               LET w == Returned.savgol[k].window_length
               IN  /\ w % 2 = 1
                   /\ w >= 3
                   /\ w <= Len(Series)
                   /\ w = ClaimedWindow(Len(Series), deriv_call.window_length)

\* 5 points and the default window 21: both calls of the filter got window 5
C12_Witness ==
    /\ deriv_call.called
    /\ Len(Series) = 5
    /\ deriv_call.window_length = 21
    /\ Len(Returned.savgol) = 2
    /\ Returned.savgol[1].window_length = 5
    /\ Returned.savgol[2].window_length = 5

\* C13: for a series of 3 points or more, any requested window and any order,
\* the order of every call of the filter is strictly less than its window.
C13_PolyorderBelowWindow ==
    deriv_call.called /\ Len(Series) >= 3 =>
        \A k \in 1..Len(Returned.savgol) :
            Returned.savgol[k].polyorder < Returned.savgol[k].window_length

-----------------------------------------------------------------------------
(* DTG trace *)

RECURSIVE Gcd(_, _)
Gcd(a, b) == IF b = 0 THEN a ELSE Gcd(b, a % b)

\* the fraction q in lowest terms, its denominator positive
Lowest(q) ==
    LET g == Gcd(Abs(q[1]), Abs(q[2]))
    IN  <<(Sgn(q[2]) * q[1]) \div g, Abs(q[2]) \div g>>

\* two fractions are numbers and the same number
SameValue(p, q) == IsNumber(p) /\ IsNumber(q) /\ Lowest(p) = Lowest(q)

\* a fraction is a number from 0 to 100
ZeroToHundred(q) ==
    /\ IsNumber(q)
    /\ Lowest(q)[1] >= 0
    /\ Lowest(q)[1] <= 100 * Lowest(q)[2]

\* the derivative that update_charts rescales, and the DTG trace it shows
Deriv ==
    CalcDerivative(tg.temp, NormMass(tg.mass), DefaultWindowLength,
                   DefaultPolyorder)
Dtg == mass_temp_chart.dtg

\* sample i of a vector whose samples share the denominator of the first,
\* as an integer over that denominator made positive
Over(d, i) == Sgn(d[1][2]) * d[i][1]

\* C14: the DTG trace has one value per sample of the derivative; with lo and
\* hi the least and the greatest sample, value i is 100*(d[i]-lo)/(hi-lo) when
\* hi # lo, so that every value is from 0 to 100, a least sample is shown as 0
\* and a greatest one as 100; when hi = lo every value is 0.
C14_DtgRescaled ==
    chart_visible =>
        LET d == Deriv
            n == Len(d)
        IN  /\ Len(Dtg) = n
            /\ \A i \in 1..n : IsNumber(d[i]) /\ d[i][2] = d[1][2]
            /\ \E lo, hi \in 1..n :
                   /\ \A j \in 1..n :
                          Over(d, lo) <= Over(d, j) /\ Over(d, j) <= Over(d, hi)
                   /\ Over(d, hi) # Over(d, lo) =>
                          /\ \A i \in 1..n :
                                 /\ SameValue(Dtg[i],
                                              <<100 * (Over(d, i) - Over(d, lo)),
                                                Over(d, hi) - Over(d, lo)>>)
                                 /\ ZeroToHundred(Dtg[i])
                          /\ Equals(Dtg[lo], 0)
                          /\ Equals(Dtg[hi], 100)
                   /\ Over(d, hi) = Over(d, lo) =>
                          \A i \in 1..n : Equals(Dtg[i], 0)

\* masses [6, 2, 2, 2] over a falling temperature: the derivative is 15, 5,
\* 0, 0 per degree and the trace runs 100, 100/3, 0, 0
C14_Witness ==
    /\ chart_visible
    /\ tg.mass = <<6, 2, 2, 2>>
    /\ tg.temp = <<90, 80, 70, 60>>
    /\ Len(Dtg) = 4
    /\ Equals(Dtg[1], 100)
    /\ SameValue(Dtg[2], <<100, 3>>)
    /\ Equals(Dtg[3], 0)
    /\ Equals(Dtg[4], 0)

\* C15: once update_charts has run on three loaded datasets whose TG file has
\* 3 samples or more, the charts are shown, nothing was raised, and every
\* value of the TG trace and of the DTG trace is a number.
C15_PipelineCompletes ==
    Idle /\ AllLoaded(status) /\ Len(tg.mass) >= 3 =>
        /\ chart_visible
        /\ update_charts_error = None
        /\ \A i \in 1..Len(mass_temp_chart.tg) :
               IsNumber(mass_temp_chart.tg[i])
        /\ \A i \in 1..Len(Dtg) : IsNumber(Dtg[i])

-----------------------------------------------------------------------------
(* The selected time written back to manual-time-input *)

\* the value v is the time t rounded to 2 decimals
RoundedTo2(v, t) == v % 5 = 0 /\ Dist(v, t) <= 2

\* the call wrote the time of the red line back, rounded to 2 decimals
WroteBackRounded ==
    chart_visible' =>
        /\ manual_time' # None
        /\ RoundedTo2(Val(manual_time'), Val(time_temp_chart'.line))

\* over the domain [0 s, 120 s], 45.7 s typed is selected and shown again
TypedExample ==
    ManualTimeInputOf(Some(22850)) /\ gs.time = <<0, 60000>> =>
        LineAt(time_temp_chart', 22850) /\ manual_time' = Some(22850)

\* C16 as claimed: update_charts writes the selected time back to
\* manual-time-input rounded to 2 decimals, and a later call that takes the
\* value shown there as its manual value selects that very value and shows it
\* again; 45.7 s typed over [0 s, 120 s] is selected and shown as 45.7 s.
C16_RoundTripSame ==
    [][/\ WroteBackRounded
       /\ TypedExample
       /\ StoreChanged /\ manual_time # None /\ chart_visible' =>
              /\ LineAt(time_temp_chart', Val(manual_time))
              /\ manual_time' = manual_time]_vars

\* C16, amended: update_charts writes the selected time back to
\* manual-time-input rounded to 2 decimals, and a later call that takes the
\* value shown there as its manual value shows the same value again and
\* selects it brought into the GS time domain (the value itself when it lies
\* in the domain); 45.7 s typed over [0 s, 120 s] is selected and shown as
\* 45.7 s.
C16_RoundTripShown ==
    [][/\ WroteBackRounded
       /\ TypedExample
       /\ StoreChanged /\ manual_time # None /\ chart_visible' =>
              /\ LineAt(time_temp_chart', Within(Val(manual_time), gs.time))
              /\ manual_time' = manual_time]_vars

\* the line was dragged to 5.006 s and 5.01 s was shown; the GS trace was then
\* toggled and the call that followed selected 5.01 s and shows 5.01 s
C16_Witness ==
    /\ gs.time = <<2502, 12001, 24998>>
    /\ relayout_data.x0 = Some(2503)
    /\ show_gs
    /\ Idle
    /\ LineAt(time_temp_chart, 2505)
    /\ manual_time = Some(2505)

-----------------------------------------------------------------------------
(* Faults *)

\* C17: when update_charts looks for the closest spectrum in a spectral
\* matrix without rows, the caller gets a DataError.
C17_EmptyMatrixDataError ==
    Idle /\ AllLoaded(status) /\ ftir.loaded /\ ftir.times = <<>> =>
        update_charts_error = Some("DataError")

Streams == {"tg", "gs", "ftir"}

FilesOf(stream) ==
    IF stream = "tg" THEN TgFiles
    ELSE IF stream = "gs" THEN GsFiles
    ELSE FtirFiles

\* C18: when update_status fails to parse the file uploaded to a stream
\* whose dataset was loaded, the status of the stream becomes false and the
\* three datasets are what they were.
C18_FailedParseKeepsDatasets ==
    [][\A stream \in Streams : \A f \in FilesOf(stream) :
           Upload(stream, f) /\ status[stream] /\ f.kind # "ok" =>
               /\ ~status'[stream]
               /\ <<tg', gs', ftir'>> = <<tg, gs, ftir>>]_vars

-----------------------------------------------------------------------------
(* Sessions *)

\* the names of the files the first session has uploaded
Uploaded == [stream \in Streams |-> Val(contents[stream]).name]

\* C19: with a second session served by the same process, the charts shown
\* to the first session are computed from the TG and GS files that session
\* uploaded itself.
C19_SessionConfined ==
    Idle /\ chart_visible /\ update_charts_error = None =>
        /\ mass_temp_chart.source = Uploaded.tg
        /\ time_temp_chart.tg = Uploaded.tg
        /\ time_temp_chart.gs = Uploaded.gs

-----------------------------------------------------------------------------
(* Column selection *)

\* the selection with the mass column taken by the priority of the patterns:
\* the first column that holds "unsubtracted weight", else the first that
\* holds "weight", else the first that holds "tg"
SelectedByPriority(columns) ==
    LET unsubtracted ==
            FirstColumn(columns, {Lower(UnsubtractedWeightPattern)})
        weight == FirstColumn(columns, {WeightPattern})
        mass ==
            IF unsubtracted # <<>> THEN unsubtracted
            ELSE IF weight # <<>> THEN weight
            ELSE FirstColumn(columns, {TgPattern})
        selected_cols ==
            FirstColumn(columns, {SampleTemperaturePattern})
                \o FirstColumn(columns, {ProgramTemperaturePattern}) \o mass
    IN  IF selected_cols = <<>> THEN FirstTwo(columns) ELSE selected_cols

\* what the upload of the table under the name n has left in the store
Entry(n) ==
    multi_tg_data_store'[
        CHOOSE k \in 1..Len(multi_tg_data_store') :
            multi_tg_data_store'[k].name = n]

\* C20: of a table read by handle_multi_tg_uploads the store keeps the
\* sample temperature, the program temperature and the mass column in this
\* order, the mass column being one that holds "unsubtracted weight" if
\* there is one, else one that holds "weight", else one that holds "tg".
C20_MassByPriority ==
    [][\A f \in MultiTgFiles :
           UploadMultiTgOf(<<f>>) /\ f.kind = "ok"
               /\ ~InStore(multi_tg_data_store, f.name) =>
                   Entry(f.name).columns =
                       SelectedByPriority(f.columns)]_vars

\* no column of the table is a sample temperature, a program temperature or
\* a mass column
NoColumnMatches(columns) ==
    FirstColumn(columns, {SampleTemperaturePattern,
                          ProgramTemperaturePattern} \cup MassPatterns) = <<>>

\* the generic names: "X_Value", "Mass"
GenericX ==
    <<"X", "_", "V", "a", "l", "u", "e">>
GenericMass ==
    <<"M", "a", "s", "s">>

\* C21: of a table of two or more columns none of which matches a pattern,
\* the store keeps the first two columns under the generic names.
C21_FallbackRelabelled ==
    [][\A f \in MultiTgFiles :
           UploadMultiTgOf(<<f>>) /\ f.kind = "ok"
               /\ ~InStore(multi_tg_data_store, f.name)
               /\ NoColumnMatches(f.columns) /\ Len(f.columns) >= 2 =>
                   Entry(f.name).columns = <<GenericX, GenericMass>>]_vars

-----------------------------------------------------------------------------
(* Wavenumber axis *)

\* a text that reads as a number: blanks around it aside, a sign at most,
\* digits, and one comma or period at most among them
LooksNumeric(s) ==
    LET inner == {i \in 1..Len(s) : s[i] # " "}
        signs == {i \in inner : s[i] \in {"+", "-"}}
        marks == {i \in inner : s[i] \in {",", "."}}
    IN  /\ \A j \in 1..Len(s) :
               (\E k \in inner : k < j) /\ (\E k \in inner : k > j) =>
                   j \in inner
        /\ \A i \in inner : IsDigit(s[i]) \/ i \in signs \/ i \in marks
        /\ \E i \in inner : IsDigit(s[i])
        /\ Cardinality(marks) <= 1
        /\ \A i \in signs : \A j \in inner : i <= j

IsNumeric(c) == c.type = "number" \/ LooksNumeric(c.text)

\* the sequence a holds the elements of b that are numeric, in their order
NumericOnes(a, b) ==
    \E pos \in [1..Len(a) -> 1..Len(b)] :
        /\ \A i \in 1..Len(a) : a[i] = b[pos[i]] /\ IsNumeric(a[i])
        /\ \A i, j \in 1..Len(a) : i < j => pos[i] < pos[j]
        /\ \A k \in 1..Len(b) :
               IsNumeric(b[k]) => \E i \in 1..Len(a) : pos[i] = k

-----------------------------------------------------------------------------
(* The derivative of the comparison page *)

\* C28: for a series of one point or more and any window asked for, every
\* call of the filter gets a window that is odd, at least 3 and no longer than
\* the series, and an order below the window.
C28_ValidWindow ==
    deriv_call.called /\ Len(Series) >= 1 =>
        \A k \in 1..Len(Returned.savgol) :
            LET call == Returned.savgol[k]
            IN  /\ call.window_length % 2 = 1
                /\ call.window_length >= 3
                /\ call.window_length <= Len(Series)
                /\ call.polyorder < call.window_length

-----------------------------------------------------------------------------
(* Calls of update_charts that no selection causes *)

\* C24: a call of update_charts caused by show-gs-store or fixed-ftir-list,
\* made while the charts of the call before it are shown, draws the red line
\* at the same time and shows the same closest spectrum as that call.
C24_SameSelection ==
    [][(/\ StoreChanged
        /\ pending \in {Some("show-gs-store"), Some("fixed-ftir-list")}
        /\ chart_visible /\ chart_visible') =>
           /\ time_temp_chart'.line = time_temp_chart.line
           /\ ftir_graph'.closest_time = ftir_graph.closest_time
           /\ ftir_graph'.y = ftir_graph.y]_vars

\* C25: while the three flags of a session's upload-status are true, and so
\* whenever a call of update_charts passes its guard, none of tg, gs and
\* ftir is None.
C25_DatasetsLoaded ==
    AllLoaded(status) \/ AllLoaded(peer_status) =>
        tg.loaded /\ gs.loaded /\ ftir.loaded

\* the first session sees its charts after another session has uploaded a
\* TG file too
C25_Witness ==
    /\ AllLoaded(status)
    /\ Idle /\ chart_visible
    /\ peer_status.tg
    /\ tg.loaded /\ gs.loaded /\ ftir.loaded

-----------------------------------------------------------------------------
(* Legend of the comparison page *)

\* the visibility dict holds for every file the value it had, True for a
\* file it did not have
Unflipped(new, old) ==
    \A k \in DOMAIN new :
        /\ k \in DOMAIN old => new[k] = old[k]
        /\ k \notin DOMAIN old => new[k] = TRUE

\* the calls update_visibility may get
NClicks == {None, Some(0), Some(1)}

\* C26: update_visibility flips a file only when its eye was pressed: a call
\* made because the store changed, or for an eye whose n_clicks is None or
\* 0, leaves every visibility as it was, and a call for an eye whose
\* n_clicks is 1 flips the file of that eye and no other
C26_FlipsOnlyOnClick ==
    [][/\ UpdateVisibilityOnStore =>
              Unflipped(tg_legend_visibility', tg_legend_visibility)
       /\ \A fname \in Keys(multi_tg_data_store) :
              /\ \A n_clicks \in {None, Some(0)} :
                     UpdateVisibilityOf(EyeId(fname), n_clicks) =>
                         Unflipped(tg_legend_visibility', tg_legend_visibility)
              /\ UpdateVisibilityOf(EyeId(fname), Some(1)) =>
                     /\ tg_legend_visibility'[fname] =
                            ~GetVisible(tg_legend_visibility, fname)
                     /\ \A k \in DOMAIN tg_legend_visibility' \ {fname} :
                            tg_legend_visibility'[k] =
                                GetVisible(tg_legend_visibility, k)]_vars

\* new is old brought to the keys of the store: the same keys as the store,
\* the old value of a file that had one, True for a file that had none; the
\* file whose eye the call handles is left out of the comparison of values
SyncedTo(new, old, data_json, handled) ==
    /\ DOMAIN new = Keys(data_json)
    /\ data_json = <<>> => new = <<>>
    /\ \A k \in Keys(data_json) \ {handled} :
           /\ k \in DOMAIN old => new[k] = old[k]
           /\ k \notin DOMAIN old => new[k] = TRUE

-----------------------------------------------------------------------------
(* Store of the comparison page *)

\* C29: whatever manual uploads and walkthrough loads are made, no name
\* leaves multi-tg-data-store, a manual upload leaves the table of every
\* name the store holds as it is, and show-graph-cards is true exactly when
\* the store holds a file
C29_StoreOnlyGrows ==
    [][/\ Keys(multi_tg_data_store) \subseteq Keys(multi_tg_data_store')
       /\ \/ \A k \in 1..Len(multi_tg_data_store) :
                 multi_tg_data_store'[k] = multi_tg_data_store[k]
          \/ ~UploadLegendFiles
       /\ show_graph_cards' = (multi_tg_data_store' # <<>>)]_vars

\* the walkthrough has been loaded into a store that holds a manual upload
\* too
C29_Witness ==
    /\ ~IsNone(walkthrough_data)
    /\ Val(walkthrough_data) # <<>>
    /\ InStore(multi_tg_data_store, "a.csv")
    /\ InStore(multi_tg_data_store, WalkthroughLabels[1])
    /\ show_graph_cards

-----------------------------------------------------------------------------
(* Figures of the comparison page *)

\* the table the store holds under a name
EntryOf(data_json, n) ==
    data_json[CHOOSE k \in 1..Len(data_json) : data_json[k].name = n]

\* two curves of fractions with the same values
SameCurve(a, b) ==
    /\ Len(a) = Len(b)
    /\ \A i \in 1..Len(a) : a[i][1] * b[i][2] = b[i][1] * a[i][2]

\* C23: the curve plot_multi_tg_comparison draws for a file is the curve
\* the Evolved Gas Analysis page draws of the same masses: normalised with
\* the maximum and the minimum of the series
C23_SameNormalisation ==
    [][PlotMultiTgComparison =>
          \A i \in 1..Len(multi_tg_comparison_graph'.traces) :
              SameCurve(multi_tg_comparison_graph'.traces[i].y,
                        NormMass(EntryOf(multi_tg_data_store,
                                         multi_tg_comparison_graph'
                                             .traces[i].name).mass))]_vars

\* C30: with a store that holds a visible file, plot_multi_tg_dtg
\* completes and returns a figure, whatever columns the files have
C30_DtgCompletes ==
    [][(/\ PlotMultiTgDtg
        /\ multi_tg_data_store # <<>>
        /\ \E k \in Keys(multi_tg_data_store) :
               GetVisible(tg_legend_visibility, k)) =>
           multi_tg_dtg_graph'.raised = {}]_vars

=============================================================================
